---- MODULE Spec2Model ----
(***************************************************************************)
(* State-machine model of the AiNeedJob job-matching platform (Django).    *)
(* The persisted tables (User, Resume, Vacancy, Applied_resume,            *)
(* Saved_vacancy, Notification), the per-browser session store and the     *)
(* response of the last request are the state; every view is one action    *)
(* that runs to completion (one worker handles one request at a time).     *)
(***************************************************************************)
EXTENDS Integers, Sequences, FiniteSets, TLC

(* ------------------------------ bounds --------------------------------- *)
\* Browser sessions that issue requests.
NumSessions == 2
\* Rows ever inserted into each table (primary keys are never reused).
MaxUsers == 2
MaxResumes == 2
MaxVacancies == 1
MaxApplied == 2
MaxSaved == 2
\* Sub-lines that textwrap.wrap makes of one line of a text.
MaxWrapped == 2

VARIABLES
    users,          \* User table: sequence, primary key = index
    session,        \* session store: browser session -> [user_id, role]
    resumes,        \* Resume table: set of rows (rows can be deleted)
    nextResumeId,   \* next primary key of the Resume table
    vacancies,      \* Vacancy table: sequence, primary key = index
    applied,        \* Applied_resume table: set of rows (rows go with their resume)
    nextAppliedId,  \* next primary key of the Applied_resume table
    saved,          \* Saved_vacancy table: set of rows (rows can be deleted)
    nextSavedId,    \* next primary key of the Saved_vacancy table
    notifications,  \* Notification table: sequence, primary key = index
    observers,      \* notification_subject._observers, in registration order
    response,       \* what the last request returned
    delivered,      \* the observer.notify calls made so far, in call order
    inflight,       \* requests between their lookup and the write that follows it
    hashseed,       \* the salt of str.__hash__ in the running server process
    canvas          \* the PDF being drawn: cursor, font and the last canvas call

authVars == <<users, session>>
cvVars == <<resumes, nextResumeId>>
appliedVars == <<applied, nextAppliedId>>
savedVars == <<saved, nextSavedId>>
dbVars == <<users, resumes, nextResumeId, vacancies, applied, nextAppliedId, saved, nextSavedId, notifications>>
vars == <<users, session, resumes, nextResumeId, vacancies, applied, nextAppliedId, saved, nextSavedId, notifications, observers, response, delivered, inflight, hashseed, canvas>>

(* ------------------------------ values --------------------------------- *)
\* The browser sessions of the session store.
Sessions == DOMAIN session

\* A session without the key "user_id" (and "role").
NoUser == 0
NoRole == "none"
EmptySession == [user_id |-> NoUser, role |-> NoRole]

Origins == {"saved", "published", "other"}
\* the download format of a valid SelectOutputFormat POST, or a plain page
OutputFormats == {"page", "pdf", "docx", "txt"}

ROLE_CHOICES == {"jobseeker", "recruiter"}

\* The choices declared for Applied_resume.state (the stored values, without
\* their labels). Model.save() does not check a value against them.
Applied_resume_state_choices == {"applied", "interviewed", "rejected"}

\* The sign-up forms submitted (username, raw password, role).
SignupForms ==
    { [username |-> "alice", password |-> "pw-a", role |-> "jobseeker"],
      [username |-> "bob", password |-> "pw-b", role |-> "recruiter"],
      [username |-> "carol", password |-> "pw-a", role |-> "jobseeker"] }

Usernames == { f.username : f \in SignupForms } \cup {"nobody"}
Passwords == { f.password : f \in SignupForms }

\* django.contrib.auth.hashers: the stored value is a one-way encoding of the
\* raw password, never the raw password; check_password re-encodes and compares.
make_password(raw) == <<"pbkdf2_sha256", raw>>
check_password(raw, encoded) == encoded = make_password(raw)

UserIds == DOMAIN users

\* "user_id" in request.session
LoggedIn(s) == session[s].user_id # NoUser

\* What a view that calls no observer returns: a redirect (by route name), a rendered page, a file,
\* a 404 page, or an exception that no view catches ("error").
\* The message is the text the view hands to django.contrib.messages, without
\* its accents ("" when it adds none).
Respond(status, message) ==
    /\ response' = [status |-> status, message |-> message]
    /\ UNCHANGED <<observers, delivered, inflight, hashseed, canvas>>

\* A request that writes nothing: no table row and no session key changes.
ReadOnly == UNCHANGED <<session, dbVars>>

\* return redirect("login") of a protected view reached without "user_id"
RedirectToLogin ==
    /\ Respond("redirect_login", "")
    /\ ReadOnly

(* ------------------------------ users ---------------------------------- *)
\* User.objects.get(username=username): the matching ids (username is unique)
UsersNamed(username) == { u \in UserIds : users[u].username = username }

\* SignupView: the ModelForm rejects a taken username; form_valid creates the
\* user, logs the session in and persists is_authenticated = True.
SignupView(s, form) ==
    IF UsersNamed(form.username) # {}
    THEN /\ Respond("render", "")
         /\ ReadOnly
    ELSE /\ Len(users) < MaxUsers
         /\ LET id == Len(users) + 1
            IN /\ users' = Append(users,
                     [username |-> form.username,
                      password |-> make_password(form.password),
                      role |-> form.role,
                      is_authenticated |-> TRUE])
               /\ session' = [session EXCEPT ![s] = [user_id |-> id, role |-> form.role]]
         /\ Respond("redirect_home", "")
         /\ UNCHANGED <<cvVars, vacancies, appliedVars, savedVars, notifications>>

\* LoginView.form_valid as it would be without the password check
LoginView_without_password_check(s, username, password) ==
    IF UsersNamed(username) = {}
    THEN /\ Respond("render", "Usuario no encontrado.")
         /\ ReadOnly
    ELSE LET id == CHOOSE u \in UsersNamed(username) : TRUE
         IN /\ users' = [users EXCEPT ![id].is_authenticated = TRUE]
            /\ session' = [session EXCEPT ![s] = [user_id |-> id, role |-> users[id].role]]
            /\ Respond("redirect_home", "")
            /\ UNCHANGED <<cvVars, vacancies, appliedVars, savedVars, notifications>>

\* LoginView.form_valid
LoginView(s, username, password) ==
    IF UsersNamed(username) = {}
    THEN /\ Respond("render", "Usuario no encontrado.")
         /\ ReadOnly
    ELSE LET id == CHOOSE u \in UsersNamed(username) : TRUE
         IN IF ~check_password(password, users[id].password)
            THEN /\ Respond("render", "Contrasena incorrecta.")
                 /\ ReadOnly
            ELSE /\ users' = [users EXCEPT ![id].is_authenticated = TRUE]
                 /\ session' = [session EXCEPT ![s] = [user_id |-> id, role |-> users[id].role]]
                 /\ Respond("redirect_home", "")
                 /\ UNCHANGED <<cvVars, vacancies, appliedVars, savedVars, notifications>>

\* logout_view as it would be without request.session.flush()
logout_view_without_flush(s) ==
    IF LoggedIn(s)
    THEN /\ users' = [users EXCEPT ![session[s].user_id].is_authenticated = FALSE]
         /\ Respond("redirect_login", "")
         /\ UNCHANGED <<session, cvVars, vacancies, appliedVars, savedVars, notifications>>
    ELSE /\ Respond("redirect_login", "No hay un usuario autenticado.")
         /\ ReadOnly

\* logout_view (LogoutView.get and .post both delegate to it)
logout_view(s) ==
    IF LoggedIn(s)
    THEN /\ users' = [users EXCEPT ![session[s].user_id].is_authenticated = FALSE]
         /\ session' = [session EXCEPT ![s] = EmptySession]
         /\ Respond("redirect_login", "")
         /\ UNCHANGED <<cvVars, vacancies, appliedVars, savedVars, notifications>>
    ELSE /\ Respond("redirect_login", "No hay un usuario autenticado.")
         /\ ReadOnly

\* HistoryView.dispatch / get_context_data: read-only
HistoryView(s) ==
    IF ~LoggedIn(s)
    THEN RedirectToLogin
    ELSE /\ Respond("render", "")
         /\ ReadOnly

(* ------------------------------ texts ---------------------------------- *)
\* Texts are sequences of characters, so that str.strip() is computed.
IsSpace(c) == c \in {" ", "\n", "\t"}

RECURSIVE lstrip(_)
lstrip(t) == IF t # <<>> /\ IsSpace(Head(t)) THEN lstrip(Tail(t)) ELSE t

RECURSIVE rstrip(_)
rstrip(t) ==
    IF t # <<>> /\ IsSpace(t[Len(t)]) THEN rstrip(SubSeq(t, 1, Len(t) - 1)) ELSE t

\* str.strip()
strip(t) == rstrip(lstrip(t))

\* request.FILES.get("file"): no file, or one uploaded file
NoFile == [name |-> "", content |-> <<>>]
UploadedFiles == { [name |-> "cv.txt", content |-> <<"c", "v", "1">>] }
\* form.cleaned_data["cv_text"] of a form filled with white space
BlankText == <<" ">>

\* The uploadCV requests: a GET, a POST whose form is invalid, and valid POSTs
\* with a file and with neither a file nor text.
UploadRequests ==
    { [method |-> "GET", valid |-> FALSE, file |-> NoFile, cv_text |-> <<>>],
      [method |-> "POST", valid |-> FALSE, file |-> NoFile, cv_text |-> <<>>],
      [method |-> "POST", valid |-> TRUE, file |-> NoFile, cv_text |-> BlankText] }
    \cup { [method |-> "POST", valid |-> TRUE, file |-> f, cv_text |-> <<>>] :
              f \in UploadedFiles }

\* form.cleaned_data["cv_text"] of a form with typed text; Django keeps the
\* white space around it only if the field is declared with strip=False
ManualText == <<"m", " ", "e">>

\* Valid uploadCV POSTs with manual text, without and with a file.
ManualRequests ==
    { [method |-> "POST", valid |-> TRUE, file |-> f, cv_text |-> ManualText] :
         f \in UploadedFiles \cup {NoFile} }

\* The characters of the names of uploaded files, and the names themselves.
MaxNameLen == 4
NameChars == {"p", "d", "f", "P", "."}
Filenames == UNION { [1..n -> NameChars] : n \in 1..MaxNameLen }

\* str.lower()
lower(t) ==
    [i \in DOMAIN t |->
        CASE t[i] = "P" -> "p" [] t[i] = "D" -> "d" [] t[i] = "F" -> "f" [] OTHER -> t[i]]

\* filename.rsplit(".", 1)[-1]: what follows the last ".", and the whole name
\* when it holds no "."
RECURSIVE rsplit_last(_)
rsplit_last(t) ==
    IF t = <<>> \/ t[Len(t)] = "."
    THEN <<>>
    ELSE Append(rsplit_last(SubSeq(t, 1, Len(t) - 1)), t[Len(t)])

get_extraction_strategy(filename) ==
    LET ext == lower(rsplit_last(filename))
    IN IF ext = <<"p", "d", "f">> THEN "PdfExtractionStrategy" ELSE "TextExtractionStrategy"

\* A call of _get_extraction_strategy: what it returned, and for which name.
get_extraction_strategy_call(filename) ==
    /\ response' = [status |-> get_extraction_strategy(filename), message |-> filename]
    /\ UNCHANGED <<session, dbVars, observers, delivered, inflight, hashseed, canvas>>

\* FileExtractionStrategy.extract: the text held by the uploaded file
extract(file) == file.content

\* The salts hash randomisation can give a server process.
NumHashSeeds == 2
HashSeeds == 1..NumHashSeeds

\* hash(text) of a str: it depends on the text and on the salt of the process
hash(text, seed) == <<"hash", text, seed>>

\* A vector is held by its element type, its number of elements and what its
\* elements were drawn from; tobytes() keeps all three.
EmbeddingDimension == 1536
\* numpy's itemsize in bytes
itemsize(dtype) == CASE dtype = "float32" -> 4 [] dtype = "float64" -> 8 [] OTHER -> 0
\* len(blob)
nbytes(blob) == itemsize(blob.dtype) * blob.size
\* np.frombuffer(blob, dtype=np.float32).size
frombuffer_size(blob) == nbytes(blob) \div 4

\* MockEmbeddingService.embed in a process with salt seed:
\* np.random.default_rng(abs(hash(text)) % 2**32).random(dimension, dtype=np.float32)
MockEmbeddingService_embed(text, dimension, seed) ==
    [dtype |-> "float32", size |-> dimension, rng |-> hash(text, seed)]

\* _embedding_service.embed(text).tobytes() of the running process
embed(text) == MockEmbeddingService_embed(text, EmbeddingDimension, hashseed)

\* _default_embedding(): np.random.rand(1536).tobytes(), 64-bit floats
default_embedding ==
    [dtype |-> "float64", size |-> EmbeddingDimension, rng |-> <<"random">>]

\* b"": a blob without bytes
EmptyBlob == [dtype |-> "float32", size |-> 0, rng |-> <<>>]

\* cosine_similarity of two blobs, kept symbolic
cosine_similarity(a, b) == <<"cos", a, b>>

\* the chat-completion answer for a CV, stripped
improved(text) == <<"improved">> \o text

(* ------------------------------ queries -------------------------------- *)
ResumeIds == { r.id : r \in resumes }
ResumeById(id) == CHOOSE r \in resumes : r.id = id
\* Resume.objects.filter(uploaded_by=user)
ResumesOf(u) == { r \in resumes : r.uploaded_by = u }
VacancyIds == DOMAIN vacancies
AppliedIds == { a.id : a \in applied }
AppliedById(id) == CHOOSE a \in applied : a.id = id
NotificationIds == DOMAIN notifications
\* Applied_resume.objects.filter(resume=resume, vacancy=vacancy)
AppliedFor(r, v) == { a \in applied : a.resume = r /\ a.vacancy = v }
\* Applied_resume.objects.filter(resume=resume)
AppliedOfResume(r) == { a \in applied : a.resume = r }
\* Saved_vacancy.objects.filter(user=user, vacancy=vacancy)
SavedFor(u, v) == { x \in saved : x.user = u /\ x.vacancy = v }

\* Ids a request may name: every key a table can issue, and one it cannot.
\* (A Notification is created only by deciding an Applied_resume.)
ResumeKeys == 1..(MaxResumes + 1)
VacancyKeys == 1..(MaxVacancies + 1)
AppliedKeys == 1..(MaxApplied + 1)
SavedKeys == 1..(MaxSaved + 1)
NotificationKeys == 1..(MaxApplied + 1)

\* request.POST.get("resume_id") when the POST carries none
NoId == 0

\* The apply_vacancy requests: a GET, and POSTs with and without a resume_id.
ApplyRequests ==
    { [method |-> "GET", resume_id |-> NoId] }
    \cup { [method |-> "POST", resume_id |-> r] : r \in ResumeKeys \cup {NoId} }

(* ------------------------------ CVapp ---------------------------------- *)
home(s) ==
    IF ~LoggedIn(s)
    THEN RedirectToLogin
    ELSE /\ Respond("render", "")
         /\ ReadOnly

\* feed as it would be if it were open to every browser
feed_without_session_check(s) ==
    /\ Respond("render", "")
    /\ ReadOnly

feed(s) ==
    IF ~LoggedIn(s)
    THEN RedirectToLogin
    ELSE /\ Respond("render", "")
         /\ ReadOnly

\* uploadCV as it would be if typed text took precedence over the file
uploadCV_preferring_text(s, method, valid, file, cv_text) ==
    IF ~LoggedIn(s)
    THEN RedirectToLogin
    ELSE IF method = "POST" /\ valid /\ (file # NoFile \/ strip(cv_text) # <<>>)
         THEN /\ nextResumeId <= MaxResumes
              /\ LET typed == strip(cv_text) # <<>>
                     extracted_text == IF typed THEN cv_text ELSE extract(file)
                 IN resumes' = resumes \cup
                        { [id |-> nextResumeId,
                           version |-> "1.0",
                           name |-> IF typed THEN "Manual Entry" ELSE file.name,
                           extracted_text |-> extracted_text,
                           upgraded_cv |-> <<>>,
                           uploaded_by |-> session[s].user_id,
                           embedding |-> embed(extracted_text)] }
              /\ nextResumeId' = nextResumeId + 1
              /\ Respond("render", "CV subido y procesado con exito")
              /\ UNCHANGED <<authVars, vacancies, appliedVars, savedVars, notifications>>
         ELSE /\ Respond("render",
                    IF method # "POST" THEN ""
                    ELSE IF ~valid THEN "Formulario no valido"
                    ELSE "No hay un CV inicial")
              /\ ReadOnly

\* uploadCV: method, form.is_valid(), the uploaded file and the manual text
uploadCV(s, method, valid, file, cv_text) ==
    IF ~LoggedIn(s)
    THEN RedirectToLogin
    ELSE IF method = "POST" /\ valid /\ (file # NoFile \/ strip(cv_text) # <<>>)
         THEN /\ nextResumeId <= MaxResumes
              /\ LET extracted_text == IF file # NoFile THEN extract(file) ELSE cv_text
                 IN resumes' = resumes \cup
                        { [id |-> nextResumeId,
                           version |-> "1.0",
                           name |-> IF file # NoFile THEN file.name ELSE "Manual Entry",
                           extracted_text |-> extracted_text,
                           upgraded_cv |-> <<>>,
                           uploaded_by |-> session[s].user_id,
                           embedding |-> embed(extracted_text)] }
              /\ nextResumeId' = nextResumeId + 1
              /\ Respond("render", "CV subido y procesado con exito")
              /\ UNCHANGED <<authVars, vacancies, appliedVars, savedVars, notifications>>
         ELSE /\ Respond("render",
                    IF method # "POST" THEN ""
                    ELSE IF ~valid THEN "Formulario no valido"
                    ELSE "No hay un CV inicial")
              /\ ReadOnly

\* the queryset's first() in place of last(): the row with the least key
FirstResumeOf(u) == CHOOSE r \in ResumesOf(u) : \A q \in ResumesOf(u) : r.id <= q.id

\* Resume.objects.filter(uploaded_by=user).last(): the row with the greatest key
LastResumeOf(u) == CHOOSE r \in ResumesOf(u) : \A q \in ResumesOf(u) : q.id <= r.id

\* mejorar_cv: ai_ok is whether the chat-completion call returned; format is
\* the download format of a valid POST ("page" when none applies)
mejorar_cv(s, ai_ok, format) ==
    IF ~LoggedIn(s)
    THEN RedirectToLogin
    ELSE IF ResumesOf(session[s].user_id) = {}
         THEN /\ Respond("redirect_upload_cv", "No has subido un CV aun.")
              /\ ReadOnly
         ELSE LET resume == LastResumeOf(session[s].user_id)
                  new_cv == IF ai_ok THEN improved(resume.extracted_text)
                                     ELSE resume.extracted_text
              IN /\ resumes' = (resumes \ {resume}) \cup {[resume EXCEPT !.upgraded_cv = new_cv]}
                 /\ Respond(IF format = "page" THEN "render" ELSE "file",
                            IF ai_ok THEN ""
                            ELSE "No se pudo acceder al servicio de IA, se mostrara el CV original.")
                 /\ UNCHANGED <<authVars, nextResumeId, vacancies, appliedVars, savedVars, notifications>>

\* apply_vacancy as it would be if it looked the resume up among all resumes
apply_vacancy_with_any_resume(s, vacancy_id, method, resume_id) ==
    IF ~LoggedIn(s)
    THEN RedirectToLogin
    ELSE IF vacancy_id \notin VacancyIds
    THEN /\ Respond("error", "")
         /\ ReadOnly
    ELSE IF ResumesOf(session[s].user_id) = {}
    THEN /\ Respond("redirect_upload_cv", "No tienes un CV subido")
         /\ ReadOnly
    ELSE IF method # "POST"
    THEN /\ Respond("render", "")
         /\ ReadOnly
    ELSE IF resume_id \notin ResumeIds
    THEN /\ Respond("redirect_apply", "Debes seleccionar un CV valido.")
         /\ ReadOnly
    ELSE /\ IF AppliedFor(resume_id, vacancy_id) # {}
            THEN UNCHANGED appliedVars
            ELSE /\ nextAppliedId <= MaxApplied
                 /\ applied' = applied \cup
                       { [id |-> nextAppliedId,
                          resume |-> resume_id,
                          vacancy |-> vacancy_id,
                          match_rate |-> cosine_similarity(ResumeById(resume_id).embedding,
                                                           vacancies[vacancy_id].embedding),
                          state |-> "applied",
                          feedback |-> "null"] }
                 /\ nextAppliedId' = nextAppliedId + 1
         /\ Respond("redirect_feed",
                IF AppliedFor(resume_id, vacancy_id) # {}
                THEN "Ya has aplicado a esta vacante con este CV"
                ELSE "Has aplicado a la vacante con exito")
         /\ UNCHANGED <<authVars, cvVars, vacancies, savedVars, notifications>>

\* apply_vacancy as it would be without the lookup of an existing application
apply_vacancy_without_lookup(s, vacancy_id, method, resume_id) ==
    IF ~LoggedIn(s)
    THEN RedirectToLogin
    ELSE IF vacancy_id \notin VacancyIds
    THEN /\ Respond("error", "")
         /\ ReadOnly
    ELSE IF ResumesOf(session[s].user_id) = {}
    THEN /\ Respond("redirect_upload_cv", "No tienes un CV subido")
         /\ ReadOnly
    ELSE IF method # "POST"
    THEN /\ Respond("render", "")
         /\ ReadOnly
    ELSE IF resume_id \notin { r.id : r \in ResumesOf(session[s].user_id) }
    THEN /\ Respond("redirect_apply", "Debes seleccionar un CV valido.")
         /\ ReadOnly
    ELSE /\ nextAppliedId <= MaxApplied
         /\ applied' = applied \cup
               { [id |-> nextAppliedId,
                  resume |-> resume_id,
                  vacancy |-> vacancy_id,
                  match_rate |-> cosine_similarity(ResumeById(resume_id).embedding,
                                                   vacancies[vacancy_id].embedding),
                  state |-> "applied",
                  feedback |-> "null"] }
         /\ nextAppliedId' = nextAppliedId + 1
         /\ Respond("redirect_feed", "Has aplicado a la vacante con exito")
         /\ UNCHANGED <<authVars, cvVars, vacancies, savedVars, notifications>>

\* apply_vacancy; resume_id is request.POST.get("resume_id")
apply_vacancy(s, vacancy_id, method, resume_id) ==
    IF ~LoggedIn(s)
    THEN RedirectToLogin
    ELSE IF vacancy_id \notin VacancyIds
    THEN \* Vacancy.objects.get raises Vacancy.DoesNotExist
         /\ Respond("error", "")
         /\ ReadOnly
    ELSE IF ResumesOf(session[s].user_id) = {}
    THEN /\ Respond("redirect_upload_cv", "No tienes un CV subido")
         /\ ReadOnly
    ELSE IF method # "POST"
    THEN /\ Respond("render", "")
         /\ ReadOnly
    ELSE IF resume_id \notin { r.id : r \in ResumesOf(session[s].user_id) }
    THEN /\ Respond("redirect_apply", "Debes seleccionar un CV valido.")
         /\ ReadOnly
    ELSE LET resume == ResumeById(resume_id)
             vacancy == vacancies[vacancy_id]
             resume_emb == IF resume.embedding # EmptyBlob THEN resume.embedding
                           ELSE embed(resume.extracted_text)
             vacancy_emb == IF vacancy.embedding # EmptyBlob THEN vacancy.embedding
                            ELSE embed(vacancy.description \o <<" ">> \o vacancy.requirements)
         IN /\ resumes' = (resumes \ {resume}) \cup {[resume EXCEPT !.embedding = resume_emb]}
            /\ vacancies' = [vacancies EXCEPT ![vacancy_id].embedding = vacancy_emb]
            /\ IF frombuffer_size(resume_emb) # frombuffer_size(vacancy_emb)
               THEN \* np.dot raises ValueError: the shapes are not aligned
                    /\ UNCHANGED appliedVars
                    /\ Respond("error", "")
               ELSE /\ IF AppliedFor(resume_id, vacancy_id) # {}
                       THEN UNCHANGED appliedVars
                       ELSE /\ nextAppliedId <= MaxApplied
                            /\ applied' = applied \cup
                                  { [id |-> nextAppliedId,
                                     resume |-> resume_id,
                                     vacancy |-> vacancy_id,
                                     match_rate |-> cosine_similarity(resume_emb, vacancy_emb),
                                     state |-> "applied",
                                     feedback |-> "null"] }
                            /\ nextAppliedId' = nextAppliedId + 1
                    /\ Respond("redirect_feed",
                           IF AppliedFor(resume_id, vacancy_id) # {}
                           THEN "Ya has aplicado a esta vacante con este CV"
                           ELSE "Has aplicado a la vacante con exito")
            /\ UNCHANGED <<authVars, nextResumeId, savedVars, notifications>>

\* apply_vacancy requests that can be between lookup and insert at once
MaxInflight == 2
RequestSlots == 1..MaxInflight

\* A valid apply_vacancy POST of request k up to and including its lookup of an
\* existing application, when another request may run before its insert: the
\* embeddings are backfilled; the request answers at once when the lookup finds
\* a row, and otherwise goes on to insert.
apply_vacancy_lookup(k, s, vacancy_id, resume_id) ==
    /\ LoggedIn(s)
    /\ vacancy_id \in VacancyIds
    /\ resume_id \in { r.id : r \in ResumesOf(session[s].user_id) }
    /\ \A q \in inflight : q.request # k
    /\ LET resume == ResumeById(resume_id)
           vacancy == vacancies[vacancy_id]
           resume_emb == IF resume.embedding # EmptyBlob THEN resume.embedding
                         ELSE embed(resume.extracted_text)
           vacancy_emb == IF vacancy.embedding # EmptyBlob THEN vacancy.embedding
                          ELSE embed(vacancy.description \o <<" ">> \o vacancy.requirements)
       IN /\ resumes' = (resumes \ {resume}) \cup {[resume EXCEPT !.embedding = resume_emb]}
          /\ vacancies' = [vacancies EXCEPT ![vacancy_id].embedding = vacancy_emb]
          /\ IF frombuffer_size(resume_emb) # frombuffer_size(vacancy_emb)
             THEN \* np.dot raises ValueError: the shapes are not aligned
                  /\ response' = [status |-> "error", message |-> ""]
                  /\ UNCHANGED inflight
             ELSE IF AppliedFor(resume_id, vacancy_id) # {}
             THEN /\ response' = [status |-> "redirect_feed",
                                  message |-> "Ya has aplicado a esta vacante con este CV"]
                  /\ UNCHANGED inflight
             ELSE /\ inflight' = inflight \cup
                         { [request |-> k,
                            resume |-> resume_id,
                            vacancy |-> vacancy_id,
                            match_rate |-> cosine_similarity(resume_emb, vacancy_emb)] }
                  /\ UNCHANGED response
    /\ UNCHANGED <<authVars, nextResumeId, appliedVars, savedVars, notifications, observers, delivered, hashseed, canvas>>

\* the insert as it would be if it looked the pair up again (get_or_create)
apply_vacancy_insert_unless_present(q) ==
    /\ q \in inflight
    /\ inflight' = inflight \ {q}
    /\ IF AppliedFor(q.resume, q.vacancy) # {}
       THEN /\ response' = [status |-> "redirect_feed",
                            message |-> "Ya has aplicado a esta vacante con este CV"]
            /\ UNCHANGED appliedVars
       ELSE /\ nextAppliedId <= MaxApplied
            /\ applied' = applied \cup
                  { [id |-> nextAppliedId, resume |-> q.resume, vacancy |-> q.vacancy,
                     match_rate |-> q.match_rate, state |-> "applied", feedback |-> "null"] }
            /\ nextAppliedId' = nextAppliedId + 1
            /\ response' = [status |-> "redirect_feed",
                            message |-> "Has aplicado a la vacante con exito"]
    /\ UNCHANGED <<authVars, cvVars, vacancies, savedVars, notifications, observers, delivered, hashseed, canvas>>

\* The rest of a request whose lookup found no row: Applied_resume.objects.create
\* and the answer.
apply_vacancy_insert(q) ==
    /\ q \in inflight
    /\ inflight' = inflight \ {q}
    /\ nextAppliedId <= MaxApplied
    /\ applied' = applied \cup
          { [id |-> nextAppliedId, resume |-> q.resume, vacancy |-> q.vacancy,
             match_rate |-> q.match_rate, state |-> "applied", feedback |-> "null"] }
    /\ nextAppliedId' = nextAppliedId + 1
    /\ response' = [status |-> "redirect_feed",
                    message |-> "Has aplicado a la vacante con exito"]
    /\ UNCHANGED <<authVars, cvVars, vacancies, savedVars, notifications, observers, delivered, hashseed, canvas>>

\* delete_cv as it would be without the lookup of the resume's applications
delete_cv_without_lookup(s, cv_id) ==
    IF ~LoggedIn(s)
    THEN RedirectToLogin
    ELSE IF cv_id \notin { r.id : r \in ResumesOf(session[s].user_id) }
    THEN /\ Respond("error", "")
         /\ ReadOnly
    ELSE /\ resumes' = resumes \ {ResumeById(cv_id)}
         /\ applied' = applied \ AppliedOfResume(cv_id)
         /\ Respond("redirect_history", "CV eliminado con exito")
         /\ UNCHANGED <<authVars, nextResumeId, vacancies, nextAppliedId, savedVars, notifications>>

\* delete_cv; resume.delete() cascades to the Applied_resume rows of the resume
delete_cv(s, cv_id) ==
    IF ~LoggedIn(s)
    THEN RedirectToLogin
    ELSE IF cv_id \notin { r.id : r \in ResumesOf(session[s].user_id) }
    THEN \* Resume.objects.get raises Resume.DoesNotExist
         /\ Respond("error", "")
         /\ ReadOnly
    ELSE IF AppliedOfResume(cv_id) # {}
    THEN /\ Respond("redirect_history", "No puedes eliminar un CV que ya has usado para aplicar a una vacante")
         /\ ReadOnly
    ELSE /\ resumes' = resumes \ {ResumeById(cv_id)}
         /\ applied' = applied \ AppliedOfResume(cv_id)
         /\ Respond("redirect_history", "CV eliminado con exito")
         /\ UNCHANGED <<authVars, nextResumeId, vacancies, nextAppliedId, savedVars, notifications>>

\* delete_cv of request k up to and including its lookup of applications of
\* the resume, when another request may run before its delete: the request
\* answers at once when the lookup finds a row, and otherwise goes on to delete.
delete_cv_lookup(k, s, cv_id) ==
    /\ LoggedIn(s)
    /\ cv_id \in { r.id : r \in ResumesOf(session[s].user_id) }
    /\ \A q \in inflight : q.request # k
    /\ IF AppliedOfResume(cv_id) # {}
       THEN /\ response' = [status |-> "redirect_history",
                            message |-> "No puedes eliminar un CV que ya has usado para aplicar a una vacante"]
            /\ UNCHANGED inflight
       ELSE /\ inflight' = inflight \cup { [request |-> k, resume |-> cv_id] }
            /\ UNCHANGED response
    /\ UNCHANGED <<session, dbVars, observers, delivered, hashseed, canvas>>

\* The rest of a request whose lookup found no row: resume.delete(), which
\* takes the rows that reference the resume with it (on_delete=CASCADE), and
\* the answer.
delete_cv_delete(q) ==
    /\ q \in inflight
    /\ inflight' = inflight \ {q}
    /\ resumes' = { r \in resumes : r.id # q.resume }
    /\ applied' = applied \ AppliedOfResume(q.resume)
    /\ response' = [status |-> "redirect_history", message |-> "CV eliminado con exito"]
    /\ UNCHANGED <<authVars, nextResumeId, vacancies, nextAppliedId, savedVars, notifications, observers, delivered, hashseed, canvas>>

\* unsave_vacancy as it would be if it looked the bookmark up by its key alone
unsave_vacancy_of_anyone(s, vacancy_id) ==
    IF ~LoggedIn(s)
    THEN RedirectToLogin
    ELSE /\ saved' = { x \in saved : x.id # vacancy_id }
         /\ Respond("redirect_history",
                IF \E x \in saved : x.id = vacancy_id
                THEN "Vacante eliminada de favoritos"
                ELSE "No has guardado esta vacante")
         /\ UNCHANGED <<authVars, cvVars, vacancies, appliedVars, nextSavedId, notifications>>

\* unsave_vacancy; vacancy_id is matched against the key of the Saved_vacancy
unsave_vacancy(s, vacancy_id) ==
    IF ~LoggedIn(s)
    THEN RedirectToLogin
    ELSE /\ saved' = { x \in saved : ~(x.user = session[s].user_id /\ x.id = vacancy_id) }
         /\ Respond("redirect_history",
                IF \E x \in saved : x.user = session[s].user_id /\ x.id = vacancy_id
                THEN "Vacante eliminada de favoritos"
                ELSE "No has guardado esta vacante")
         /\ UNCHANGED <<authVars, cvVars, vacancies, appliedVars, nextSavedId, notifications>>

\* save_vacancy as it would be without the lookup of an existing bookmark
save_vacancy_without_lookup(s, vacancy_id) ==
    IF ~LoggedIn(s)
    THEN RedirectToLogin
    ELSE IF vacancy_id \notin VacancyIds
    THEN /\ Respond("error", "")
         /\ ReadOnly
    ELSE /\ nextSavedId <= MaxSaved
         /\ saved' = saved \cup
                { [id |-> nextSavedId, user |-> session[s].user_id, vacancy |-> vacancy_id] }
         /\ nextSavedId' = nextSavedId + 1
         /\ Respond("redirect_feed", "Vacante guardada con exito")
         /\ UNCHANGED <<authVars, cvVars, vacancies, appliedVars, notifications>>

save_vacancy(s, vacancy_id) ==
    IF ~LoggedIn(s)
    THEN RedirectToLogin
    ELSE IF vacancy_id \notin VacancyIds
    THEN \* Vacancy.objects.get raises Vacancy.DoesNotExist
         /\ Respond("error", "")
         /\ ReadOnly
    ELSE IF SavedFor(session[s].user_id, vacancy_id) # {}
    THEN /\ Respond("redirect_feed", "Ya has guardado esta vacante")
         /\ ReadOnly
    ELSE /\ nextSavedId <= MaxSaved
         /\ saved' = saved \cup
                { [id |-> nextSavedId, user |-> session[s].user_id, vacancy |-> vacancy_id] }
         /\ nextSavedId' = nextSavedId + 1
         /\ Respond("redirect_feed", "Vacante guardada con exito")
         /\ UNCHANGED <<authVars, cvVars, vacancies, appliedVars, notifications>>

\* redirect(f"/upload_cv/?vacancy_id={vacancy.id}"): the upload form, with
\* the key of a vacancy as its query parameter
RedirectToUpload(vacancy_id) ==
    /\ response' = [status |-> "redirect_upload_cv", message |-> "", vacancy_id |-> vacancy_id]
    /\ UNCHANGED <<observers, delivered, inflight, hashseed, canvas>>

\* redirect_to_cv_inprover as it would be if it passed on the key it was given
redirect_to_cv_inprover_with_given_id(s, vacancy_id, origin) ==
    IF ~LoggedIn(s)
    THEN RedirectToLogin
    ELSE LET found ==
                 IF origin = "saved"
                 THEN { x.vacancy : x \in { y \in saved : y.id = vacancy_id } }
                 ELSE IF origin = "published"
                 THEN { v \in VacancyIds : v = vacancy_id }
                 ELSE {}
             already(v) ==
                 \E a \in applied :
                     /\ a.vacancy = v
                     /\ a.resume \in { r.id : r \in ResumesOf(session[s].user_id) }
         IN /\ IF found = {}
               THEN Respond("redirect_feed", "No se encontro la vacante")
               ELSE IF origin = "saved" /\ \E v \in found : already(v)
               THEN Respond("redirect_feed", "Ya has aplicado a esta vacante")
               ELSE RedirectToUpload(vacancy_id)
            /\ ReadOnly

\* redirect_to_cv_inprover: read-only; the redirect depends on what resolves
redirect_to_cv_inprover(s, vacancy_id, origin) ==
    IF ~LoggedIn(s)
    THEN RedirectToLogin
    ELSE LET found ==
                 IF origin = "saved"
                 THEN { x.vacancy : x \in { y \in saved : y.id = vacancy_id } }
                 ELSE IF origin = "published"
                 THEN { v \in VacancyIds : v = vacancy_id }
                 ELSE {}
             already(v) ==
                 \E a \in applied :
                     /\ a.vacancy = v
                     /\ a.resume \in { r.id : r \in ResumesOf(session[s].user_id) }
         IN /\ IF found = {}
               THEN Respond("redirect_feed", "No se encontro la vacante")
               ELSE IF origin = "saved" /\ \E v \in found : already(v)
               THEN Respond("redirect_feed", "Ya has aplicado a esta vacante")
               ELSE RedirectToUpload(CHOOSE v \in found : TRUE)
            /\ ReadOnly

\* reportlab.lib.pagesizes.letter and reportlab.lib.units.inch, in points
letter == <<612, 792>>
inch == 72
width == letter[1]
height == letter[2]
left_margin == inch
right_margin == width - inch
max_width == right_margin - left_margin

\* The branches of the markdown-like styling, by what the line starts with or
\* holds ("" for a line that is none of these).
LineKinds == {"# ", "## ", "- ", "**", ""}
\* wrap(line, width=int(max_width / 6)) gives no sub-line for a line that is
\* empty or blank after its marker is cut; a "- " line always keeps its bullet.
WrappedCounts(kind) == (IF kind = "- " THEN 1 ELSE 0)..MaxWrapped

\* if y <= inch
at_bottom_strictly(y) == y < inch
at_bottom(y) == y <= inch

\* canvas.Canvas(buffer, pagesize=letter) with y = height - inch: nothing is
\* drawn yet. "line" is the marker of the line being drawn, "lines" the
\* sub-lines of it still to draw, "checked" the cursor the last `if y <= inch`
\* looked at, "at" the y of the drawString of the last step (0 when it drew
\* nothing).
Canvas ==
    [y |-> height - inch, font |-> <<"Helvetica", 12>>, line |-> "", lines |-> 0,
     op |-> "Canvas", checked |-> height - inch, showPage |-> FALSE, at |-> 0]

\* One turn of `for line in lines` up to the wrap: the font and the gap of the
\* line's marker, then the page break when the cursor is at the bottom.
generate_pdf_response_line(kind, wrapped) ==
    /\ canvas.lines = 0
    /\ LET font == IF kind = "# " THEN <<"Helvetica-Bold", 14>>
                   ELSE IF kind = "## " THEN <<"Helvetica-Bold", 12>>
                   ELSE IF kind = "- " THEN <<"Helvetica", 12>>
                   ELSE IF kind = "**" THEN <<"Helvetica-Bold", 12>>
                   ELSE <<"Helvetica", 12>>
           y == IF kind = "# " THEN canvas.y - 20
                ELSE IF kind = "## " THEN canvas.y - 15
                ELSE canvas.y
       IN canvas' = [y |-> IF at_bottom(y) THEN height - inch ELSE y,
                     font |-> IF at_bottom(y) THEN <<"Helvetica", 12>> ELSE font,
                     line |-> kind, lines |-> wrapped,
                     op |-> "line", checked |-> y, showPage |-> at_bottom(y),
                     at |-> 0]
    /\ UNCHANGED <<session, dbVars, observers, response, delivered, inflight, hashseed>>

\* One turn of `for l in wrap(...)`: the page break when the cursor is at the
\* bottom, p.drawString(left_margin, y, l), y -= 14.
generate_pdf_response_drawString ==
    /\ canvas.lines > 0
    /\ LET y == IF at_bottom(canvas.y) THEN height - inch ELSE canvas.y
       IN canvas' = [y |-> y - 14,
                     font |-> IF at_bottom(canvas.y) THEN <<"Helvetica", 12>> ELSE canvas.font,
                     line |-> canvas.line, lines |-> canvas.lines - 1,
                     op |-> "drawString", checked |-> canvas.y,
                     showPage |-> at_bottom(canvas.y), at |-> y]
    /\ UNCHANGED <<session, dbVars, observers, response, delivered, inflight, hashseed>>

(* ------------------------------ notifications -------------------------- *)
\* Notification.read of a row created without a value for it
NotificationReadDefault == FALSE

\* NotificationModelObserver.notify: Notification.objects.create(user, message)
NotificationModelObserver_notify(table, user, message) ==
    Append(table, [user |-> user, message |-> message, read |-> NotificationReadDefault])

\* NotificationSubject.notify: every registered observer, in registration order
RECURSIVE NotificationSubject_notify(_, _, _, _)
NotificationSubject_notify(obs, table, user, message) ==
    IF obs = <<>>
    THEN table
    ELSE NotificationSubject_notify(Tail(obs),
             IF Head(obs) = "NotificationModelObserver"
             THEN NotificationModelObserver_notify(table, user, message)
             ELSE table,
             user, message)

\* the notify calls an unordered set of observers would get: one per observer
NotificationSubject_calls_once_each(obs, user, message) ==
    LET first(o) == CHOOSE i \in DOMAIN obs : obs[i] = o /\ \A j \in 1..(i - 1) : obs[j] # o
        RECURSIVE Walk(_)
        Walk(i) == IF i > Len(obs) THEN <<>>
                   ELSE (IF first(obs[i]) = i
                         THEN <<[observer |-> obs[i], user |-> user, message |-> message]>>
                         ELSE <<>>) \o Walk(i + 1)
    IN Walk(1)

\* NotificationSubject.notify: the observer.notify calls it makes, in call order
RECURSIVE NotificationSubject_calls(_, _, _)
NotificationSubject_calls(obs, user, message) ==
    IF obs = <<>>
    THEN <<>>
    ELSE <<[observer |-> Head(obs), user |-> user, message |-> message]>>
         \o NotificationSubject_calls(Tail(obs), user, message)

\* notification_subject.notify(user, message)
Notify(user, message) ==
    /\ notifications' = NotificationSubject_notify(observers, notifications, user, message)
    /\ delivered' = delivered \o NotificationSubject_calls(observers, user, message)

\* Observers that can be registered: the model observer and another one.
ObserverPool == {"NotificationModelObserver", "OtherObserver"}
\* Messages handed to notify.
NotifyMessages == {"m1", "m2"}
\* Registrations held at once, and observer.notify calls logged.
MaxObservers == 3
MaxDelivered == 4

\* what a call of a NotificationSubject method did: it returned None, or it
\* raised the named exception
Returned == [status |-> "returned", message |-> ""]
Raised(exception) == [status |-> "error", message |-> exception]

Registered == { observers[i] : i \in DOMAIN observers }

\* list.remove(x): the list without its first item equal to x
RemoveFirst(list, x) ==
    LET i == CHOOSE k \in DOMAIN list : list[k] = x /\ \A j \in 1..(k - 1) : list[j] # x
    IN SubSeq(list, 1, i - 1) \o SubSeq(list, i + 1, Len(list))

\* NotificationSubject.register
NotificationSubject_register(observer) ==
    /\ Len(observers) < MaxObservers
    /\ observers' = Append(observers, observer)
    /\ response' = Returned
    /\ UNCHANGED <<session, dbVars, delivered, inflight, hashseed, canvas>>

\* NotificationSubject.unregister: list.remove raises ValueError when the
\* observer is not in the list
NotificationSubject_unregister(observer) ==
    IF observer \in Registered
    THEN /\ observers' = RemoveFirst(observers, observer)
         /\ response' = Returned
         /\ UNCHANGED <<session, dbVars, delivered, inflight, hashseed, canvas>>
    ELSE /\ response' = Raised("ValueError")
         /\ UNCHANGED <<session, dbVars, observers, delivered, inflight, hashseed, canvas>>

\* a call of notification_subject.notify on its own
NotificationSubject_notify_call(user, message) ==
    /\ Len(delivered) + Len(observers) <= MaxDelivered
    /\ Notify(user, message)
    /\ response' = [status |-> "notified", message |-> message]
    /\ UNCHANGED <<session, users, cvVars, vacancies, appliedVars, savedVars, observers, inflight, hashseed, canvas>>

notification_list(s) ==
    IF ~LoggedIn(s)
    THEN RedirectToLogin
    ELSE /\ Respond("render", "")
         /\ ReadOnly

\* mark_notification_read as it would be without the check of the owner
mark_notification_read_by_anyone(s, notification_id) ==
    IF ~LoggedIn(s)
    THEN RedirectToLogin
    ELSE IF notification_id \notin NotificationIds
    THEN /\ Respond("not_found", "")
         /\ ReadOnly
    ELSE /\ notifications' = [notifications EXCEPT ![notification_id].read = TRUE]
         /\ Respond("redirect_notification_list",
                IF notifications[notification_id].read THEN ""
                ELSE "Notificacion marcada como leida.")
         /\ UNCHANGED <<authVars, cvVars, vacancies, appliedVars, savedVars>>

mark_notification_read(s, notification_id) ==
    IF ~LoggedIn(s)
    THEN RedirectToLogin
    ELSE IF notification_id \notin NotificationIds
    THEN \* get_object_or_404
         /\ Respond("not_found", "")
         /\ ReadOnly
    ELSE IF notifications[notification_id].user # session[s].user_id
    THEN /\ Respond("redirect_notification_list", "No tienes permiso para modificar esta notificacion.")
         /\ ReadOnly
    ELSE /\ notifications' = [notifications EXCEPT ![notification_id].read = TRUE]
         /\ Respond("redirect_notification_list",
                IF notifications[notification_id].read THEN ""
                ELSE "Notificacion marcada como leida.")
         /\ UNCHANGED <<authVars, cvVars, vacancies, appliedVars, savedVars>>

(* ------------------------------ offer ---------------------------------- *)
\* The vacancy forms posted (title, description, requirements).
VacancyForms ==
    { [title |-> "Backend", description |-> <<"d">>, requirements |-> <<"r">>] }

NoForm == [title |-> "", description |-> <<>>, requirements |-> <<>>]
\* The upload_vacancies requests: a GET, an invalid POST and valid POSTs.
VacancyRequests ==
    { [method |-> "GET", valid |-> FALSE, form |-> NoForm],
      [method |-> "POST", valid |-> FALSE, form |-> NoForm] }
    \cup { [method |-> "POST", valid |-> TRUE, form |-> f] : f \in VacancyForms }

\* The uploadCVS requests: a GET, and POSTs that differ in whether the form
\* is valid, in request.FILES (empty, files under another field only, files
\* under "file") and in whether the vacancy text is non-blank.
RankRequests ==
    { [method |-> "GET", valid |-> TRUE, files |-> "none", has_text |-> FALSE],
      [method |-> "POST", valid |-> FALSE, files |-> "file", has_text |-> TRUE],
      [method |-> "POST", valid |-> TRUE, files |-> "none", has_text |-> TRUE],
      [method |-> "POST", valid |-> TRUE, files |-> "file", has_text |-> FALSE],
      [method |-> "POST", valid |-> TRUE, files |-> "other_field", has_text |-> TRUE],
      [method |-> "POST", valid |-> TRUE, files |-> "file", has_text |-> TRUE] }

\* The cosine similarities of uploaded files to the vacancy text, in tenths,
\* and the uploads of one request: file i of the request scores uploads[i].
MaxFiles == 3
Scores == {0, 3, 6, 9, 10}
RankedUploads == UNION { [1..n -> Scores] : n \in 1..MaxFiles }

\* the sort as it would be if it put the later of two equal scores first
RECURSIVE sort_by_score_later_first(_)
sort_by_score_later_first(ranking) ==
    IF ranking = <<>>
    THEN <<>>
    ELSE LET x == Head(ranking)
             rest == sort_by_score_later_first(Tail(ranking))
             before == SelectSeq(rest, LAMBDA e : e.score >= x.score)
             after == SelectSeq(rest, LAMBDA e : e.score < x.score)
         IN before \o <<x>> \o after

\* ranking.sort(key=lambda x: x["score"], reverse=True): descending and stable
RECURSIVE sort_by_score(_)
sort_by_score(ranking) ==
    IF ranking = <<>>
    THEN <<>>
    ELSE LET x == Head(ranking)
             rest == sort_by_score(Tail(ranking))
             before == SelectSeq(rest, LAMBDA e : e.score > x.score)
             after == SelectSeq(rest, LAMBDA e : e.score <= x.score)
         IN before \o <<x>> \o after

\* best_cv: None, and best_score = -1.0 in tenths, before the first file
NoBest == [filename |-> 0, score |-> -10]

\* the loop's `if score > best_score`: the best of the first n entries
RECURSIVE best_cv(_, _)
best_cv(ranking, n) ==
    IF n = 0
    THEN NoBest
    ELSE LET best == best_cv(ranking, n - 1)
         IN IF ranking[n].score > best.score THEN ranking[n] ELSE best

\* uploadCVS for a valid POST with a vacancy text and the files of uploads:
\* the page shows the sorted ranking and the best entry; nothing is stored.
uploadCVS_ranking(s, uploads) ==
    IF ~LoggedIn(s)
    THEN RedirectToLogin
    ELSE LET ranking == [i \in DOMAIN uploads |-> [filename |-> i, score |-> uploads[i]]]
         IN /\ response' = [status |-> "render",
                            message |-> "Todos los archivos fueron procesados correctamente.",
                            ranking |-> sort_by_score(ranking),
                            best_cv |-> best_cv(ranking, Len(ranking))]
            /\ UNCHANGED <<observers, delivered, inflight, hashseed, canvas>>
            /\ ReadOnly

\* uploadCVS ranks the uploaded files for display and stores nothing
uploadCVS(s, method, valid, files, has_text) ==
    IF ~LoggedIn(s)
    THEN RedirectToLogin
    ELSE /\ Respond("render",
                IF method # "POST" THEN ""
                ELSE IF ~(valid /\ files # "none") THEN "Error en la carga del formulario."
                ELSE IF ~has_text THEN "No hay un texto de vacante proporcionado."
                ELSE IF files # "file" THEN "No se seleccionaron archivos."
                ELSE "Todos los archivos fueron procesados correctamente.")
         /\ ReadOnly

upload_vacancies(s, method, valid, form) ==
    IF ~LoggedIn(s)
    THEN RedirectToLogin
    ELSE IF method = "POST" /\ valid
    THEN /\ Len(vacancies) < MaxVacancies
         /\ vacancies' = Append(vacancies,
                [title |-> form.title,
                 description |-> form.description,
                 requirements |-> form.requirements,
                 state |-> "open",
                 uploaded_by |-> session[s].user_id,
                 embedding |-> embed(strip(form.description \o <<" ">> \o form.requirements))])
         /\ Respond("redirect_history", "Vacante subida con exito.")
         /\ UNCHANGED <<authVars, cvVars, appliedVars, savedVars, notifications>>
    ELSE /\ Respond("render", IF method = "POST" THEN "Error al subir la vacante." ELSE "")
         /\ ReadOnly

\* The views that compute an embedding, when _embedding_service is the
\* OpenAIEmbeddingService chosen at import: embed_ok is whether
\* client.embeddings.create returned. The call sits in no try block, so a
\* raising call ends the request before anything is stored.
uploadCV_hosted(s, method, valid, file, cv_text, embed_ok) ==
    IF /\ LoggedIn(s) /\ method = "POST" /\ valid
       /\ (file # NoFile \/ strip(cv_text) # <<>>)
       /\ ~embed_ok
    THEN /\ Respond("error", "")
         /\ ReadOnly
    ELSE uploadCV(s, method, valid, file, cv_text)

upload_vacancies_hosted(s, method, valid, form, embed_ok) ==
    IF LoggedIn(s) /\ method = "POST" /\ valid /\ ~embed_ok
    THEN /\ Respond("error", "")
         /\ ReadOnly
    ELSE upload_vacancies(s, method, valid, form)

uploadCVS_hosted(s, method, valid, files, has_text, embed_ok) ==
    IF /\ LoggedIn(s) /\ method = "POST" /\ valid
       /\ files = "file" /\ has_text
       /\ ~embed_ok
    THEN /\ Respond("error", "")
         /\ ReadOnly
    ELSE uploadCVS(s, method, valid, files, has_text)

\* change_state_vacancy as it would be without the check of the owner
change_state_vacancy_by_anyone(s, vacancy_id) ==
    IF ~LoggedIn(s)
    THEN RedirectToLogin
    ELSE IF vacancy_id \notin VacancyIds
    THEN /\ Respond("error", "")
         /\ ReadOnly
    ELSE /\ vacancies' = [vacancies EXCEPT ![vacancy_id].state =
                              IF @ = "open" THEN "closed" ELSE IF @ = "closed" THEN "open" ELSE @]
         /\ Respond("redirect_history",
                IF vacancies[vacancy_id].state = "open" THEN "Vacante cerrada con exito."
                ELSE IF vacancies[vacancy_id].state = "closed" THEN "Vacante abierta con exito."
                ELSE "")
         /\ UNCHANGED <<authVars, cvVars, appliedVars, savedVars, notifications>>

\* the toggle as it would be if a closed vacancy could not be reopened
closes_only(state) == IF state = "open" THEN "closed" ELSE state

\* the state change_state_vacancy stores for a vacancy in the given state
toggled(state) ==
    IF state = "open" THEN "closed"
    ELSE IF state = "closed" THEN "open"
    ELSE state

change_state_vacancy(s, vacancy_id) ==
    IF ~LoggedIn(s)
    THEN RedirectToLogin
    ELSE IF vacancy_id \notin VacancyIds
    THEN \* Vacancy.objects.get raises Vacancy.DoesNotExist
         /\ Respond("error", "")
         /\ ReadOnly
    ELSE IF vacancies[vacancy_id].uploaded_by # session[s].user_id
    THEN /\ Respond("redirect_history", "No tienes permiso para cambiar el estado de esta vacante.")
         /\ ReadOnly
    ELSE /\ vacancies' = [vacancies EXCEPT ![vacancy_id].state = toggled(@)]
         /\ Respond("redirect_history",
                IF vacancies[vacancy_id].state = "open" THEN "Vacante cerrada con exito."
                ELSE IF vacancies[vacancy_id].state = "closed" THEN "Vacante abierta con exito."
                ELSE "")
         /\ UNCHANGED <<authVars, cvVars, appliedVars, savedVars, notifications>>

\* accept_resume as it would be without the check of the current state
accept_resume_in_any_state(s, resume_id) ==
    IF ~LoggedIn(s)
    THEN RedirectToLogin
    ELSE IF resume_id \notin AppliedIds
    THEN /\ Respond("error", "")
         /\ ReadOnly
    ELSE LET resume == AppliedById(resume_id)
         IN IF vacancies[resume.vacancy].uploaded_by # session[s].user_id
            THEN /\ Respond("redirect_history", "No tienes permiso para aceptar este CV.")
                 /\ ReadOnly
            ELSE /\ applied' = (applied \ {resume}) \cup {[resume EXCEPT !.state = "accepted"]}
                 /\ Notify(ResumeById(resume.resume).uploaded_by,
                        <<"aceptado", vacancies[resume.vacancy].title>>)
                 /\ response' = [status |-> "redirect_history", message |-> "CV aceptado con exito."]
                 /\ UNCHANGED <<authVars, cvVars, vacancies, nextAppliedId, savedVars, observers, inflight, hashseed, canvas>>

\* accept_resume; resume_id is the key of an Applied_resume
accept_resume(s, resume_id) ==
    IF ~LoggedIn(s)
    THEN RedirectToLogin
    ELSE IF resume_id \notin AppliedIds
    THEN \* Applied_resume.objects.get raises Applied_resume.DoesNotExist
         /\ Respond("error", "")
         /\ ReadOnly
    ELSE LET resume == AppliedById(resume_id)
         IN IF vacancies[resume.vacancy].uploaded_by # session[s].user_id
            THEN /\ Respond("redirect_history", "No tienes permiso para aceptar este CV.")
                 /\ ReadOnly
            ELSE IF resume.state # "applied"
            THEN /\ Respond("redirect_history", "Este CV ya ha sido procesado.")
                 /\ ReadOnly
            ELSE /\ applied' = (applied \ {resume}) \cup {[resume EXCEPT !.state = "accepted"]}
                 /\ Notify(ResumeById(resume.resume).uploaded_by,
                        <<"aceptado", vacancies[resume.vacancy].title>>)
                 /\ response' = [status |-> "redirect_history", message |-> "CV aceptado con exito."]
                 /\ UNCHANGED <<authVars, cvVars, vacancies, nextAppliedId, savedVars, observers, inflight, hashseed, canvas>>

\* reject_resume as it would be without the check of the vacancy's owner
reject_resume_by_anyone(s, resume_id) ==
    IF ~LoggedIn(s)
    THEN RedirectToLogin
    ELSE IF resume_id \notin AppliedIds
    THEN /\ Respond("error", "")
         /\ ReadOnly
    ELSE LET resume == AppliedById(resume_id)
         IN IF resume.state # "applied"
            THEN /\ Respond("redirect_history", "Este CV ya ha sido procesado.")
                 /\ ReadOnly
            ELSE /\ applied' = (applied \ {resume}) \cup {[resume EXCEPT !.state = "rejected"]}
                 /\ Notify(ResumeById(resume.resume).uploaded_by,
                        <<"rechazado", vacancies[resume.vacancy].title>>)
                 /\ response' = [status |-> "redirect_history", message |-> "CV rechazado con exito."]
                 /\ UNCHANGED <<authVars, cvVars, vacancies, nextAppliedId, savedVars, observers, inflight, hashseed, canvas>>

\* reject_resume as it would be if it notified the user who decides
reject_resume_notifying_decider(s, resume_id) ==
    IF ~LoggedIn(s)
    THEN RedirectToLogin
    ELSE IF resume_id \notin AppliedIds
    THEN /\ Respond("error", "")
         /\ ReadOnly
    ELSE LET resume == AppliedById(resume_id)
         IN IF vacancies[resume.vacancy].uploaded_by # session[s].user_id
            THEN /\ Respond("redirect_history", "No tienes permiso para rechazar este CV.")
                 /\ ReadOnly
            ELSE IF resume.state # "applied"
            THEN /\ Respond("redirect_history", "Este CV ya ha sido procesado.")
                 /\ ReadOnly
            ELSE /\ applied' = (applied \ {resume}) \cup {[resume EXCEPT !.state = "rejected"]}
                 /\ Notify(session[s].user_id,
                        <<"rechazado", vacancies[resume.vacancy].title>>)
                 /\ response' = [status |-> "redirect_history", message |-> "CV rechazado con exito."]
                 /\ UNCHANGED <<authVars, cvVars, vacancies, nextAppliedId, savedVars, observers, inflight, hashseed, canvas>>

\* reject_resume; resume_id is the key of an Applied_resume
reject_resume(s, resume_id) ==
    IF ~LoggedIn(s)
    THEN RedirectToLogin
    ELSE IF resume_id \notin AppliedIds
    THEN \* Applied_resume.objects.get raises Applied_resume.DoesNotExist
         /\ Respond("error", "")
         /\ ReadOnly
    ELSE LET resume == AppliedById(resume_id)
         IN IF vacancies[resume.vacancy].uploaded_by # session[s].user_id
            THEN /\ Respond("redirect_history", "No tienes permiso para rechazar este CV.")
                 /\ ReadOnly
            ELSE IF resume.state # "applied"
            THEN /\ Respond("redirect_history", "Este CV ya ha sido procesado.")
                 /\ ReadOnly
            ELSE /\ applied' = (applied \ {resume}) \cup {[resume EXCEPT !.state = "rejected"]}
                 /\ Notify(ResumeById(resume.resume).uploaded_by,
                        <<"rechazado", vacancies[resume.vacancy].title>>)
                 /\ response' = [status |-> "redirect_history", message |-> "CV rechazado con exito."]
                 /\ UNCHANGED <<authVars, cvVars, vacancies, nextAppliedId, savedVars, observers, inflight, hashseed, canvas>>

\* The word of the message for a decision, and the message of the redirect.
decision_word(state) == IF state = "accepted" THEN "aceptado" ELSE "rechazado"
decision_success(state) ==
    IF state = "accepted" THEN "CV aceptado con exito." ELSE "CV rechazado con exito."

\* accept_resume of request k up to and including its check of the state,
\* when another request may run before its write: the request answers at once
\* when it is not the vacancy's owner or the application is not "applied",
\* and otherwise goes on holding the row it has read.
accept_resume_lookup(k, s, resume_id) ==
    /\ LoggedIn(s)
    /\ resume_id \in AppliedIds
    /\ \A q \in inflight : q.request # k
    /\ LET resume == AppliedById(resume_id)
       IN IF vacancies[resume.vacancy].uploaded_by # session[s].user_id
          THEN /\ response' = [status |-> "redirect_history",
                               message |-> "No tienes permiso para aceptar este CV."]
               /\ UNCHANGED inflight
          ELSE IF resume.state # "applied"
          THEN /\ response' = [status |-> "redirect_history",
                               message |-> "Este CV ya ha sido procesado."]
               /\ UNCHANGED inflight
          ELSE /\ inflight' = inflight \cup
                      { [request |-> k, resume |-> resume, state |-> "accepted", saved |-> FALSE] }
               /\ UNCHANGED response
    /\ UNCHANGED <<session, dbVars, observers, delivered, hashseed, canvas>>

\* reject_resume of request k up to and including its check of the state
reject_resume_lookup(k, s, resume_id) ==
    /\ LoggedIn(s)
    /\ resume_id \in AppliedIds
    /\ \A q \in inflight : q.request # k
    /\ LET resume == AppliedById(resume_id)
       IN IF vacancies[resume.vacancy].uploaded_by # session[s].user_id
          THEN /\ response' = [status |-> "redirect_history",
                               message |-> "No tienes permiso para rechazar este CV."]
               /\ UNCHANGED inflight
          ELSE IF resume.state # "applied"
          THEN /\ response' = [status |-> "redirect_history",
                               message |-> "Este CV ya ha sido procesado."]
               /\ UNCHANGED inflight
          ELSE /\ inflight' = inflight \cup
                      { [request |-> k, resume |-> resume, state |-> "rejected", saved |-> FALSE] }
               /\ UNCHANGED response
    /\ UNCHANGED <<session, dbVars, observers, delivered, hashseed, canvas>>

\* resume.state = ...; resume.save() of a request whose check has passed: the
\* row the request holds is written with its new state, whatever the table
\* holds by now.
resume_save(q) ==
    /\ q \in inflight
    /\ ~q.saved
    /\ applied' = { a \in applied : a.id # q.resume.id }
                      \cup { [q.resume EXCEPT !.state = q.state] }
    /\ inflight' = (inflight \ {q}) \cup { [q EXCEPT !.saved = TRUE] }
    /\ UNCHANGED <<authVars, cvVars, vacancies, nextAppliedId, savedVars, notifications,
                   observers, response, delivered, hashseed, canvas>>

\* The rest of a request that has saved: notification_subject.notify to the
\* uploader of the CV, the success message and the redirect.
resume_notify(q) ==
    /\ q \in inflight
    /\ q.saved
    /\ inflight' = inflight \ {q}
    /\ Notify(ResumeById(q.resume.resume).uploaded_by,
              <<decision_word(q.state), vacancies[q.resume.vacancy].title>>)
    /\ response' = [status |-> "redirect_history", message |-> decision_success(q.state)]
    /\ UNCHANGED <<authVars, cvVars, vacancies, appliedVars, savedVars, observers, hashseed, canvas>>

(* ------------------------------ specifications ------------------------- *)
EmptyTables ==
    /\ resumes = {}
    /\ nextResumeId = 1
    /\ vacancies = <<>>
    /\ applied = {}
    /\ nextAppliedId = 1
    /\ saved = {}
    /\ nextSavedId = 1
    /\ notifications = <<>>
    /\ observers = <<"NotificationModelObserver">>
    /\ response = [status |-> "none", message |-> ""]
    /\ delivered = <<>>
    /\ inflight = {}
    /\ hashseed = 1
    /\ canvas = Canvas

\* The users app on its own: browsers sign up, log in and log out.
InitUsers ==
    /\ users = <<>>
    /\ session = [s \in 1..NumSessions |-> EmptySession]
    /\ EmptyTables

NextUsers ==
    \/ \E s \in Sessions, form \in SignupForms : SignupView(s, form)
    \/ \E s \in Sessions, u \in Usernames, p \in Passwords : LoginView(s, u, p)
    \/ \E s \in Sessions : logout_view(s)
    \/ \E s \in Sessions : HistoryView(s)

SpecUsers == InitUsers /\ [][NextUsers]_vars

\* The sign-up forms in the order in which the market's users registered.
SignupOrder == <<"alice", "bob", "carol">>
RegisteredForm(i) == CHOOSE f \in SignupForms : f.username = SignupOrder[i]

\* The market after n users have signed up, each from a browser of its own
\* that is still logged in, while one more browser has no user.
Market(n) ==
    /\ users = [i \in 1..n |->
                  [username |-> RegisteredForm(i).username,
                   password |-> make_password(RegisteredForm(i).password),
                   role |-> RegisteredForm(i).role,
                   is_authenticated |-> TRUE]]
    /\ session = [s \in 1..(n + 1) |->
                    IF s <= n
                    THEN [user_id |-> s, role |-> RegisteredForm(s).role]
                    ELSE EmptySession]
    /\ EmptyTables

\* The views that only read.
ReadingViews ==
    \/ \E s \in Sessions : HistoryView(s)
    \/ \E s \in Sessions : home(s)
    \/ \E s \in Sessions : feed(s)
    \/ \E s \in Sessions, q \in RankRequests :
            uploadCVS(s, q.method, q.valid, q.files, q.has_text)
    \/ \E s \in Sessions : notification_list(s)
    \/ \E s \in Sessions, id \in SavedKeys \cup VacancyKeys, origin \in Origins :
            redirect_to_cv_inprover(s, id, origin)

\* The application flow: CVs and vacancies are posted, CVs are applied and
\* deleted, applications are decided, notifications are read.
ApplicationViews ==
    \/ \E s \in Sessions, q \in UploadRequests :
            uploadCV(s, q.method, q.valid, q.file, q.cv_text)
    \/ \E s \in Sessions, id \in VacancyKeys, q \in ApplyRequests :
            apply_vacancy(s, id, q.method, q.resume_id)
    \/ \E s \in Sessions, id \in ResumeKeys : delete_cv(s, id)
    \/ \E s \in Sessions, q \in VacancyRequests :
            upload_vacancies(s, q.method, q.valid, q.form)
    \/ \E s \in Sessions, id \in VacancyKeys : change_state_vacancy(s, id)
    \/ \E s \in Sessions, id \in AppliedKeys : accept_resume(s, id)
    \/ \E s \in Sessions, id \in AppliedKeys : reject_resume(s, id)
    \/ \E s \in Sessions, id \in NotificationKeys : mark_notification_read(s, id)

\* CV improvement and bookmarks.
SideViews ==
    \/ \E s \in Sessions, ai_ok \in BOOLEAN, format \in OutputFormats :
            mejorar_cv(s, ai_ok, format)
    \/ \E s \in Sessions, id \in VacancyKeys : save_vacancy(s, id)
    \/ \E s \in Sessions, id \in SavedKeys : unsave_vacancy(s, id)

\* The application flow among MaxUsers users and an anonymous browser.
Init == Market(MaxUsers)
Next == ReadingViews \/ ApplicationViews
Spec == Init /\ [][Next]_vars

\* Every protected view, for one user and an anonymous browser.
InitOneUser == Market(1)
NextOneUser == ReadingViews \/ ApplicationViews \/ SideViews
SpecOneUser == InitOneUser /\ [][NextOneUser]_vars

\* The notification subject on its own: observers are registered and
\* unregistered, and notify is called for the registered user.
InitSubject == Market(1)
NextSubject ==
    \/ \E o \in ObserverPool : NotificationSubject_register(o)
    \/ \E o \in ObserverPool : NotificationSubject_unregister(o)
    \/ \E u \in UserIds, m \in NotifyMessages : NotificationSubject_notify_call(u, m)
SpecSubject == InitSubject /\ [][NextSubject]_vars

\* The CV pages: users upload CVs as files and as typed text, have the last
\* one improved, and delete CVs.
InitCv == Market(MaxUsers)
NextCv ==
    \/ \E s \in Sessions, q \in UploadRequests \cup ManualRequests :
            uploadCV(s, q.method, q.valid, q.file, q.cv_text)
    \/ \E s \in Sessions, ai_ok \in BOOLEAN, format \in OutputFormats :
            mejorar_cv(s, ai_ok, format)
    \/ \E s \in Sessions, id \in ResumeKeys : delete_cv(s, id)
SpecCv == InitCv /\ [][NextCv]_vars

\* The uploads of a process that selected the hosted embedding service.
InitHosted == Market(MaxUsers)
NextHosted ==
    \/ \E s \in Sessions, q \in UploadRequests \cup ManualRequests, embed_ok \in BOOLEAN :
            uploadCV_hosted(s, q.method, q.valid, q.file, q.cv_text, embed_ok)
    \/ \E s \in Sessions, q \in VacancyRequests, embed_ok \in BOOLEAN :
            upload_vacancies_hosted(s, q.method, q.valid, q.form, embed_ok)
    \/ \E s \in Sessions, q \in RankRequests, embed_ok \in BOOLEAN :
            uploadCVS_hosted(s, q.method, q.valid, q.files, q.has_text, embed_ok)
SpecHosted == InitHosted /\ [][NextHosted]_vars

\* A server process starts (manage.py runserver, or a WSGI worker): the
\* modules are imported anew, so the subject holds its one observer again and
\* str.__hash__ has the salt drawn for this process; requests of the old
\* process are gone, the database and its sessions stay.
get_wsgi_application(seed) ==
    /\ hashseed' = seed
    /\ observers' = <<"NotificationModelObserver">>
    /\ inflight' = {}
    /\ UNCHANGED <<session, dbVars, response, delivered, canvas>>

\* Resume(...).save() and Vacancy(...).save() without a value for embedding,
\* as a manage.py shell or loaddata does it: the field takes its default.
Resume_save(u, file) ==
    /\ nextResumeId <= MaxResumes
    /\ resumes' = resumes \cup
          { [id |-> nextResumeId,
             version |-> "1.0",
             name |-> file.name,
             extracted_text |-> extract(file),
             upgraded_cv |-> <<>>,
             uploaded_by |-> u,
             embedding |-> default_embedding] }
    /\ nextResumeId' = nextResumeId + 1
    /\ UNCHANGED <<authVars, vacancies, appliedVars, savedVars, notifications,
                   observers, response, delivered, inflight, hashseed, canvas>>

Vacancy_save(u, form) ==
    /\ Len(vacancies) < MaxVacancies
    /\ vacancies' = Append(vacancies,
          [title |-> form.title,
           description |-> form.description,
           requirements |-> form.requirements,
           state |-> "open",
           uploaded_by |-> u,
           embedding |-> default_embedding])
    /\ UNCHANGED <<authVars, cvVars, appliedVars, savedVars, notifications,
                   observers, response, delivered, inflight, hashseed, canvas>>

\* Stored embeddings: rows are written by the views and with the field's
\* default, users apply, and the server process is restarted.
InitEmbeddings == Market(1)
NextEmbeddings ==
    \/ \E s \in Sessions, f \in UploadedFiles : uploadCV(s, "POST", TRUE, f, <<>>)
    \/ \E s \in Sessions, f \in VacancyForms : upload_vacancies(s, "POST", TRUE, f)
    \/ \E u \in UserIds, f \in UploadedFiles : Resume_save(u, f)
    \/ \E u \in UserIds, f \in VacancyForms : Vacancy_save(u, f)
    \/ \E s \in Sessions, v \in VacancyIds, r \in ResumeIds : apply_vacancy(s, v, "POST", r)
    \/ \E seed \in HashSeeds : get_wsgi_application(seed)
SpecEmbeddings == InitEmbeddings /\ [][NextEmbeddings]_vars

\* The choice of the extraction strategy for the names of uploaded files.
InitStrategy == Market(1)
NextStrategy == \E filename \in Filenames : get_extraction_strategy_call(filename)
SpecStrategy == InitStrategy /\ [][NextStrategy]_vars

\* The ranking page: users have batches of files ranked.
InitRanking == Market(1)
NextRanking == \E s \in Sessions, uploads \in RankedUploads : uploadCVS_ranking(s, uploads)
SpecRanking == InitRanking /\ [][NextRanking]_vars

\* Bookmarks: users post vacancies, and save and unsave them.
InitSaved == Market(MaxUsers)
NextSaved ==
    \/ \E s \in Sessions, f \in VacancyForms : upload_vacancies(s, "POST", TRUE, f)
    \/ \E s \in Sessions, v \in VacancyKeys : save_vacancy(s, v)
    \/ \E s \in Sessions, id \in SavedKeys : unsave_vacancy(s, id)
SpecSaved == InitSaved /\ [][NextSaved]_vars

\* From a vacancy to the upload form: users post CVs and vacancies, apply,
\* save vacancies, and ask for the upload form filled in with a vacancy.
InitPrefill == Market(MaxUsers)
NextPrefill ==
    \/ \E s \in Sessions, f \in UploadedFiles : uploadCV(s, "POST", TRUE, f, <<>>)
    \/ \E s \in Sessions, f \in VacancyForms : upload_vacancies(s, "POST", TRUE, f)
    \/ \E s \in Sessions, v \in VacancyIds, r \in ResumeIds : apply_vacancy(s, v, "POST", r)
    \/ \E s \in Sessions, v \in VacancyKeys : save_vacancy(s, v)
    \/ \E s \in Sessions, id \in SavedKeys \cup VacancyKeys, origin \in Origins :
            redirect_to_cv_inprover(s, id, origin)
SpecPrefill == InitPrefill /\ [][NextPrefill]_vars

\* A delete_cv request running beside other requests: its lookup and its
\* delete are separate steps, and whole apply_vacancy requests run between.
InitDeleting == Market(1)
NextDeleting ==
    \/ \E s \in Sessions, f \in UploadedFiles : uploadCV(s, "POST", TRUE, f, <<>>)
    \/ \E s \in Sessions, f \in VacancyForms : upload_vacancies(s, "POST", TRUE, f)
    \/ \E s \in Sessions, v \in VacancyKeys, q \in ApplyRequests :
            apply_vacancy(s, v, q.method, q.resume_id)
    \/ \E k \in RequestSlots, s \in Sessions, id \in ResumeKeys : delete_cv_lookup(k, s, id)
    \/ \E q \in inflight : delete_cv_delete(q)
SpecDeleting == InitDeleting /\ [][NextDeleting]_vars

\* Decisions handled by several workers at once: CVs and vacancies are posted
\* and applied to, and accept_resume and reject_resume requests run their check
\* of the state, their write and their notification as separate steps.
InitDeciding == Market(MaxUsers)
NextDeciding ==
    \/ \E s \in Sessions, f \in UploadedFiles : uploadCV(s, "POST", TRUE, f, <<>>)
    \/ \E s \in Sessions, f \in VacancyForms : upload_vacancies(s, "POST", TRUE, f)
    \/ \E s \in Sessions, v \in VacancyKeys, r \in ResumeKeys : apply_vacancy(s, v, "POST", r)
    \/ \E k \in RequestSlots, s \in Sessions, id \in AppliedKeys : accept_resume_lookup(k, s, id)
    \/ \E k \in RequestSlots, s \in Sessions, id \in AppliedKeys : reject_resume_lookup(k, s, id)
    \/ \E q \in inflight : resume_save(q)
    \/ \E q \in inflight : resume_notify(q)
SpecDeciding == InitDeciding /\ [][NextDeciding]_vars

\* The drawing of a PDF download: the lines of a text, one after the other.
InitPdf == Market(1)
NextPdf ==
    \/ \E kind \in LineKinds : \E wrapped \in WrappedCounts(kind) :
            generate_pdf_response_line(kind, wrapped)
    \/ generate_pdf_response_drawString
SpecPdf == InitPdf /\ [][NextPdf]_vars

\* Requests handled by several workers at once: CVs and vacancies are posted,
\* and apply_vacancy POSTs run their lookup and their insert as separate steps.
InitWorkers == Market(MaxUsers)
NextWorkers ==
    \/ \E s \in Sessions, f \in UploadedFiles : uploadCV(s, "POST", TRUE, f, <<>>)
    \/ \E s \in Sessions, f \in VacancyForms : upload_vacancies(s, "POST", TRUE, f)
    \/ \E k \in RequestSlots, s \in Sessions, v \in VacancyKeys, r \in ResumeKeys :
            apply_vacancy_lookup(k, s, v, r)
    \/ \E q \in inflight : apply_vacancy_insert(q)
SpecWorkers == InitWorkers /\ [][NextWorkers]_vars

\* The browsers without a user, and those with one.
Visitors == { s \in Sessions : ~LoggedIn(s) }
Members == { s \in Sessions : LoggedIn(s) }

\* A request of browser s to one of the protected views, with any arguments.
ProtectedView(s) ==
    \/ home(s)
    \/ feed(s)
    \/ \E q \in UploadRequests : uploadCV(s, q.method, q.valid, q.file, q.cv_text)
    \/ \E ai_ok \in BOOLEAN, format \in OutputFormats : mejorar_cv(s, ai_ok, format)
    \/ \E id \in VacancyKeys, q \in ApplyRequests : apply_vacancy(s, id, q.method, q.resume_id)
    \/ \E id \in ResumeKeys : delete_cv(s, id)
    \/ \E id \in VacancyKeys : save_vacancy(s, id)
    \/ \E id \in SavedKeys : unsave_vacancy(s, id)
    \/ \E id \in SavedKeys \cup VacancyKeys, origin \in Origins :
            redirect_to_cv_inprover(s, id, origin)
    \/ \E q \in RankRequests : uploadCVS(s, q.method, q.valid, q.files, q.has_text)
    \/ \E q \in VacancyRequests : upload_vacancies(s, q.method, q.valid, q.form)
    \/ \E id \in VacancyKeys : change_state_vacancy(s, id)
    \/ \E id \in AppliedKeys : accept_resume(s, id)
    \/ \E id \in AppliedKeys : reject_resume(s, id)
    \/ notification_list(s)
    \/ \E id \in NotificationKeys : mark_notification_read(s, id)
    \/ HistoryView(s)

\* The requests of a logged-in browser that fill the tables: a CV and a
\* vacancy are posted, the CV is applied, the vacancy is bookmarked, the
\* application is accepted.
MemberWrites(s) ==
    \/ \E f \in UploadedFiles : uploadCV(s, "POST", TRUE, f, <<>>)
    \/ \E f \in VacancyForms : upload_vacancies(s, "POST", TRUE, f)
    \/ \E id \in VacancyIds, r \in ResumeIds : apply_vacancy(s, id, "POST", r)
    \/ \E id \in VacancyIds : save_vacancy(s, id)
    \/ \E id \in AppliedIds : accept_resume(s, id)

\* A browser without a user calls every protected view while a user fills
\* the tables.
InitVisitor == Market(1)
NextVisitor ==
    \/ \E s \in Visitors : ProtectedView(s)
    \/ \E s \in Members : MemberWrites(s)
SpecVisitor == InitVisitor /\ [][NextVisitor]_vars

(* ------------------------------ applications --------------------------- *)
\* The Applied_resume rows of a table for a (resume, vacancy) pair.
PairRows(table, r, v) == { a \in table : a.resume = r /\ a.vacancy = v }

\* The views that decide, delete and toggle answer with a redirect to the
\* history page, apply_vacancy POSTs that name a resume of the caller with a
\* redirect to the feed: only steps with that answer are looked at.
Answered(status) == response'.status = status

\* An apply_vacancy POST by the owner of resume r for the existing vacancy v.
ApplyPost(s, v, r) ==
    /\ LoggedIn(s)
    /\ v \in VacancyIds
    /\ r \in { x.id : x \in ResumesOf(session[s].user_id) }
    /\ apply_vacancy(s, v, "POST", r)

\* C1: with requests run one at a time there is never more than one
\* Applied_resume for a (resume, vacancy) pair: the first apply_vacancy POST
\* for a pair adds exactly one row, in state "applied", and a later POST for the
\* same pair adds none and leaves the pair with one row.
C1_OneApplicationPerPair ==
    [][ /\ \A a, b \in applied' :
              (a.resume = b.resume /\ a.vacancy = b.vacancy) => a = b
        /\ Answered("redirect_feed") =>
           \A v \in VacancyKeys, r \in ResumeKeys, s \in Sessions :
              ApplyPost(s, v, r) =>
                  IF PairRows(applied, r, v) = {}
                  THEN /\ \E a \in applied' : /\ a \notin applied
                                              /\ applied' = applied \cup {a}
                                              /\ a.state = "applied"
                       /\ Cardinality(PairRows(applied', r, v)) = 1
                  ELSE /\ applied' = applied
                       /\ Cardinality(PairRows(applied', r, v)) = 1 ]_vars

\* A second POST for a pair has been turned down, and the table holds the
\* applications of two resumes.
C1_SecondApplyTurnedDown ==
    /\ response.message = "Ya has aplicado a esta vacante con este CV"
    /\ Cardinality(applied) = 2

Decided == {"accepted", "rejected"}

\* C2: a decided Applied_resume (accepted or rejected) is final. No request
\* changes its state or feedback, an accept_resume or reject_resume on it adds
\* no notification, and a state only ever changes from "applied" to a decision.
C2_DecisionIsFinal ==
    [][ /\ \A a \in applied : a.state \in Decided => a \in applied'
        /\ \A a \in applied, b \in applied' :
              (a.id = b.id /\ a.state # b.state) =>
                  (a.state = "applied" /\ b.state \in Decided)
        /\ Answered("redirect_history") =>
           \A id \in AppliedIds, s \in Sessions :
              (/\ AppliedById(id).state \in Decided
               /\ accept_resume(s, id) \/ reject_resume(s, id))
              => /\ notifications' = notifications
                 /\ applied' = applied ]_vars

\* The owner of the vacancy decided an application a second time: both kinds
\* of decision are on record and the last attempt was turned down.
C2_SecondDecisionTurnedDown ==
    /\ response.message = "Este CV ya ha sido procesado."
    /\ \E a, b \in applied : a.state = "accepted" /\ b.state = "rejected"
    /\ Len(notifications) = 2

\* accept_resume or reject_resume by the owner of the vacancy on application id
\* that is still in state "applied".
Decides(s, id, decision) ==
    /\ LoggedIn(s)
    /\ id \in AppliedIds
    /\ AppliedById(id).state = "applied"
    /\ vacancies[AppliedById(id).vacancy].uploaded_by = session[s].user_id
    /\ IF decision = "accepted" THEN accept_resume(s, id) ELSE reject_resume(s, id)

\* C3: a successful accept_resume (reject_resume) by the vacancy's owner sets
\* the application to "accepted" ("rejected") and, with the default observer
\* alone, adds exactly one Notification: unread and owned by the user who
\* uploaded the applied resume. No other application and no other
\* notification changes.
C3_DecisionNotifiesApplicant ==
    [][ Answered("redirect_history") =>
        \A s \in Sessions, id \in AppliedKeys, decision \in Decided :
            Decides(s, id, decision) =>
                LET a == AppliedById(id)
                IN /\ applied' = (applied \ {a}) \cup {[a EXCEPT !.state = decision]}
                   /\ Len(notifications') = Len(notifications) + 1
                   /\ SubSeq(notifications', 1, Len(notifications)) = notifications
                   /\ notifications'[Len(notifications')].user = ResumeById(a.resume).uploaded_by
                   /\ notifications'[Len(notifications')].read = FALSE
                   /\ UNCHANGED <<users, session, resumes, vacancies, saved>> ]_vars

\* An application was rejected after another was accepted; the applicant, who
\* does not own the vacancy, has the two notifications, both unread.
C3_ApplicantNotifiedTwice ==
    /\ response.message = "CV rechazado con exito."
    /\ Len(notifications) = 2
    /\ \A n \in DOMAIN notifications :
          /\ ~notifications[n].read
          /\ \A v \in VacancyIds : vacancies[v].uploaded_by # notifications[n].user
    /\ \E a \in applied : a.state = "accepted"

\* C4: delete_cv on a resume of the caller deletes the resume exactly when no
\* Applied_resume references it; when one does, the resume and all of its
\* applications stay as they are.
C4_DeleteOnlyUnusedResume ==
    [][ Answered("redirect_history") =>
        \A id \in ResumeIds, s \in Sessions :
            (/\ LoggedIn(s)
             /\ ResumeById(id).uploaded_by = session[s].user_id
             /\ delete_cv(s, id))
            => IF AppliedOfResume(id) = {}
               THEN /\ resumes' = resumes \ {ResumeById(id)}
                    /\ applied' = applied
               ELSE /\ resumes' = resumes
                    /\ applied' = applied ]_vars

\* The deletion of an applied resume was turned down: the resume and its
\* application are still there.
C4_DeleteOfAppliedResumeTurnedDown ==
    /\ response.message = "No puedes eliminar un CV que ya has usado para aplicar a una vacante"
    /\ \E r \in resumes : AppliedOfResume(r.id) # {}

\* Toggles looked at when the toggle is repeated.
MaxToggles == 6

\* The state after n change_state_vacancy calls of the owner and no other write.
RECURSIVE AfterToggles(_, _)
AfterToggles(state, n) == IF n = 0 THEN state ELSE AfterToggles(toggled(state), n - 1)

Other(state) == IF state = "open" THEN "closed" ELSE "open"

\* C5: each change_state_vacancy call by the owner of an open or closed vacancy
\* stores the other state, so an even number of such calls gives back the
\* original state and an odd number gives the other one.
C5_ToggleFlipsState ==
    [][ /\ Answered("redirect_history") =>
           \A v \in VacancyIds, s \in Sessions :
              (/\ vacancies[v].uploaded_by = session[s].user_id
               /\ vacancies[v].state \in {"open", "closed"}
               /\ change_state_vacancy(s, v))
              => /\ vacancies'[v].state = Other(vacancies[v].state)
                 /\ \A n \in 0..MaxToggles :
                       AfterToggles(vacancies[v].state, n) =
                           IF n % 2 = 0 THEN vacancies[v].state
                           ELSE Other(vacancies[v].state)
        /\ \A v \in VacancyIds :
              vacancies'[v].state # vacancies[v].state =>
                  \E s \in Sessions : change_state_vacancy(s, v) ]_vars

\* The owner closed the vacancy and opened it again: it is open as it was
\* when it was posted.
C5_ReopenedVacancy ==
    /\ response.message = "Vacante abierta con exito."
    /\ \E v \in VacancyIds : vacancies[v].state = "open"

(* ------------------------------ sessions ------------------------------- *)
\* The sessions that hold the id of user u as "user_id".
SessionsOf(u) == { s \in Sessions : session[s].user_id = u }

\* C7: the persisted is_authenticated flag of every user is true exactly when
\* at least one session holds the user's id, in every state that signup,
\* login and logout requests from any number of browsers lead to.
C7_FlagMirrorsSessions ==
    \A u \in UserIds : users[u].is_authenticated <=> SessionsOf(u) # {}

\* The users with the given username whose stored hash is the hash of the
\* given password.
Matching(username, password) ==
    { u \in UserIds : /\ users[u].username = username
                      /\ users[u].password = make_password(password) }

\* C8: a login with an unknown username or with a password that does not hash
\* to the stored hash leaves every session and every User as they are; a login
\* with a matching username and password sets that user's is_authenticated and
\* stores the user's id and role in the session of the request.
C8_LoginSetsFlagAndSession ==
    [][ \A s \in Sessions, username \in Usernames, password \in Passwords :
            LoginView(s, username, password) =>
                IF Matching(username, password) = {}
                THEN UNCHANGED <<users, session>>
                ELSE \E u \in Matching(username, password) :
                        /\ users' = [users EXCEPT ![u].is_authenticated = TRUE]
                        /\ session' = [session EXCEPT
                               ![s] = [user_id |-> u, role |-> users[u].role]] ]_vars

\* A login with a wrong password was turned down while one user is logged in
\* and another, logged out, stays logged out.
C8_WrongPasswordTurnedDown ==
    /\ response.message = "Contrasena incorrecta."
    /\ \E s \in Sessions : LoggedIn(s)
    /\ \E u \in UserIds : ~users[u].is_authenticated /\ SessionsOf(u) = {}

\* C9: a logout from a session that holds a user_id clears that user's
\* is_authenticated and leaves the session without user_id and role; a logout
\* from a session without user_id changes no User and no session; both are
\* answered with a redirect to login.
C9_LogoutClearsFlagAndSession ==
    [][ \A s \in Sessions :
            logout_view(s) =>
                /\ response'.status = "redirect_login"
                /\ IF LoggedIn(s)
                   THEN /\ users' = [users EXCEPT
                               ![session[s].user_id].is_authenticated = FALSE]
                        /\ session' = [session EXCEPT ![s] = EmptySession]
                   ELSE UNCHANGED <<users, session>> ]_vars

\* A browser logged out twice: its user's flag is cleared, the session holds
\* no user, and the second logout was answered with the warning.
C9_LoggedOutTwice ==
    /\ response.message = "No hay un usuario autenticado."
    /\ \E u \in UserIds : ~users[u].is_authenticated
    /\ \E s \in Sessions : session[s] = EmptySession

\* C6: every protected view called from a session without user_id, whatever
\* its other arguments, answers with a redirect to login and changes neither
\* a row of any table nor any session.
C6_VisitorIsRedirected ==
    [][ \A s \in Visitors :
            ProtectedView(s) =>
                /\ response'.status = "redirect_login"
                /\ UNCHANGED <<session, dbVars>> ]_vars

\* A browser without a user was sent to the login page while every table
\* holds rows.
C6_VisitorRedirectedFromFilledTables ==
    /\ response.status = "redirect_login"
    /\ \E s \in Sessions : ~LoggedIn(s)
    /\ resumes # {} /\ vacancies # <<>> /\ applied # {} /\ saved # {}
    /\ notifications # <<>>

(* ------------------------------ notifications -------------------------- *)
\* C11: after any sequence of register and unregister calls, notify(user,
\* message) calls notify of every registered observer once per registration,
\* in registration order, each with that (user, message) pair; the default
\* observer stores one Notification per call it gets.
C11_NotifyInRegistrationOrder ==
    [][ \A u \in UserIds, m \in NotifyMessages :
            NotificationSubject_notify_call(u, m) =>
                /\ delivered' = delivered \o
                       [i \in 1..Len(observers) |->
                           [observer |-> observers[i], user |-> u, message |-> m]]
                /\ Len(notifications') - Len(notifications) =
                       Cardinality({ i \in DOMAIN observers :
                                       observers[i] = "NotificationModelObserver" }) ]_vars

\* notify was called while one observer is registered twice, ahead of another
\* that is registered once: three calls were made, the last to the other one.
C11_NotifiedTwiceRegisteredObserver ==
    /\ response.status = "notified"
    /\ Len(observers) = 3
    /\ observers[1] = observers[2] /\ observers[3] # observers[1]
    /\ Len(delivered) = 3
    /\ delivered[3].observer = observers[3]

\* C12: unregister(observer) removes the first matching registration; when the
\* observer is not registered it does not raise and leaves the list as it is.
C12_UnregisterNeverRaises ==
    [][ \A o \in ObserverPool :
            NotificationSubject_unregister(o) =>
                IF o \in Registered
                THEN observers' = RemoveFirst(observers, o)
                ELSE response'.status # "error" /\ observers' = observers ]_vars

\* C13: when two apply_vacancy POSTs for one (resume, vacancy) pair interleave,
\* both can pass the lookup before either inserts: a lookup lets a request
\* through whenever the table holds no row for the pair at that moment, and the
\* insert of a request that was let through adds a row whatever the table
\* holds by then, so two rows for one pair are reachable.
C13_InsertAfterStaleLookup ==
    [][ /\ \A q \in inflight' \ inflight : PairRows(applied, q.resume, q.vacancy) = {}
        /\ \A k \in RequestSlots, s \in Sessions, v \in VacancyIds, r \in ResumeIds :
              (apply_vacancy_lookup(k, s, v, r) /\ PairRows(applied, r, v) = {})
                  => \E q \in inflight' \ inflight : q.resume = r /\ q.vacancy = v
        /\ \A q \in inflight :
              apply_vacancy_insert(q) =>
                  Cardinality(PairRows(applied', q.resume, q.vacancy)) =
                      Cardinality(PairRows(applied, q.resume, q.vacancy)) + 1 ]_vars

\* Two Applied_resume rows for one (resume, vacancy) pair.
C13_DuplicateApplication ==
    \E a, b \in applied : a # b /\ a.resume = b.resume /\ a.vacancy = b.vacancy

\* C14: accept_resume and reject_resume by a logged-in user who does not own
\* the vacancy of the application leave the application as it is and add no
\* Notification, whatever state the application is in.
C14_OnlyOwnerDecides ==
    [][ Answered("redirect_history") =>
        \A id \in AppliedIds, s \in Sessions :
            (/\ LoggedIn(s)
             /\ vacancies[AppliedById(id).vacancy].uploaded_by # session[s].user_id
             /\ accept_resume(s, id) \/ reject_resume(s, id))
            => /\ applied' = applied
               /\ notifications' = notifications ]_vars

\* A user who does not own the vacancy was refused the rejection of an
\* application that is still open, with a decided application beside it.
C14_StrangerRefused ==
    /\ response.message = "No tienes permiso para rechazar este CV."
    /\ \E a, b \in applied : a.state = "applied" /\ b.state \in Decided

\* States a stored Vacancy can hold: the two choices, and values that are not.
StoredStates == {"open", "closed", "", "draft"}

\* C15: change_state_vacancy changes the state of a vacancy only when the
\* session's user is its owner and the stored state is "open" or "closed"; for
\* another caller, or another stored state, every Vacancy stays as it is.
C15_OnlyOwnerToggles ==
    [][ /\ Answered("redirect_history") =>
           \A v \in VacancyIds, s \in Sessions :
              (LoggedIn(s) /\ change_state_vacancy(s, v)) =>
                  IF vacancies[v].uploaded_by = session[s].user_id
                  THEN vacancies' = [vacancies EXCEPT ![v].state = toggled(@)]
                  ELSE vacancies' = vacancies
        /\ \A st \in StoredStates : toggled(st) # st <=> st \in {"open", "closed"} ]_vars

\* A user who does not own the vacancy was refused the toggle, and the
\* vacancy is closed as its owner left it.
C15_StrangerRefused ==
    /\ response.message = "No tienes permiso para cambiar el estado de esta vacante."
    /\ \E v \in VacancyIds : vacancies[v].state = "closed"

\* C16: apply_vacancy adds an Applied_resume only on a POST whose resume_id
\* names a resume of the session's user; a GET, a POST without resume_id and a
\* POST that names a resume of another user add none. Every row is therefore
\* added by a request of the user who owns its resume.
C16_ApplyOnlyOwnResume ==
    [][ nextAppliedId' # nextAppliedId =>
        /\ \A a \in applied' \ applied :
              \E s \in Sessions, v \in VacancyIds :
                 /\ ResumeById(a.resume).uploaded_by = session[s].user_id
                 /\ apply_vacancy(s, v, "POST", a.resume)
        /\ \A s \in Sessions, v \in VacancyKeys, q \in ApplyRequests :
              apply_vacancy(s, v, q.method, q.resume_id) =>
                 /\ q.method = "POST"
                 /\ q.resume_id \in { r.id : r \in ResumesOf(session[s].user_id) } ]_vars

\* A user who has a resume was turned down when applying with another resume
\* than the own one, while an application with an own resume is on record.
C16_ForeignResumeTurnedDown ==
    /\ response.message = "Debes seleccionar un CV valido."
    /\ \E r, q \in resumes : r.uploaded_by # q.uploaded_by
    /\ applied # {}

C18_ImprovesOnlyLastResume ==
    [][ \A s \in Sessions, ai_ok \in BOOLEAN, format \in OutputFormats :
          (LoggedIn(s) /\ mejorar_cv(s, ai_ok, format)) =>
             LET mine == ResumesOf(session[s].user_id)
             IN IF mine = {}
                THEN UNCHANGED dbVars
                ELSE \E last \in mine :
                       /\ \A q \in mine : q.id <= last.id
                       /\ resumes' \ {ResumeById(last.id)'} = resumes \ {last}
                       /\ \E upgraded \in {ResumeById(last.id)'.upgraded_cv} :
                             /\ ResumeById(last.id)' = [last EXCEPT !.upgraded_cv = upgraded]
                             /\ ~ai_ok => /\ upgraded = last.extracted_text
                                          /\ response'.status \in {"render", "file"} ]_vars

\* The chat-completion call failed for a user who has two CVs; the later one
\* now carries its own text as upgraded text, the earlier one an improved text.
C18_FallbackOnLastResume ==
    /\ response.message = "No se pudo acceder al servicio de IA, se mostrara el CV original."
    /\ \E a, b \in resumes :
          /\ a.uploaded_by = b.uploaded_by /\ a.id < b.id
          /\ b.upgraded_cv = b.extracted_text
          /\ a.upgraded_cv \notin {<<>>, a.extracted_text}

\* C19: when the hosted embedding service was selected and its embed call
\* raises during uploadCV, upload_vacancies or uploadCVS, the request still
\* completes: it does not end in an unhandled failure.
C19_EmbeddingFailureHandled ==
    [][ Answered("error") =>
        ~ \/ \E s \in Sessions, q \in UploadRequests \cup ManualRequests :
                uploadCV_hosted(s, q.method, q.valid, q.file, q.cv_text, FALSE)
          \/ \E s \in Sessions, q \in VacancyRequests :
                upload_vacancies_hosted(s, q.method, q.valid, q.form, FALSE)
          \/ \E s \in Sessions, q \in RankRequests :
                uploadCVS_hosted(s, q.method, q.valid, q.files, q.has_text, FALSE) ]_vars

\* C20: a request of a logged-in user to apply_vacancy, save_vacancy,
\* delete_cv, change_state_vacancy, accept_resume or reject_resume, with any
\* id, ends with a redirect or a page: an id that names no record, or a
\* record of another user, never ends the request in an unhandled failure.
C20_UnknownIdHandled ==
    [][ Answered("error") =>
        \A s \in Sessions :
           LoggedIn(s) =>
              ~ \/ \E v \in VacancyKeys, q \in ApplyRequests :
                      apply_vacancy(s, v, q.method, q.resume_id)
                \/ \E v \in VacancyKeys : save_vacancy(s, v)
                \/ \E id \in ResumeKeys : delete_cv(s, id)
                \/ \E v \in VacancyKeys : change_state_vacancy(s, v)
                \/ \E id \in AppliedKeys : accept_resume(s, id)
                \/ \E id \in AppliedKeys : reject_resume(s, id) ]_vars

(* ------------------------------ files ---------------------------------- *)
\* A name ends in ".pdf", in any letter case.
EndsInDotPdf(filename) ==
    /\ Len(filename) >= 4
    /\ lower(SubSeq(filename, Len(filename) - 3, Len(filename))) = <<".", "p", "d", "f">>

\* C21: _get_extraction_strategy selects the PDF strategy exactly for the
\* names that end in ".pdf" in any letter case, and the plain-text strategy for
\* every other name, names without a "." (such as "pdf" and "PDF") included.
C21_PdfStrategyOnlyForDotPdf ==
    response.status \in {"PdfExtractionStrategy", "TextExtractionStrategy"} =>
        (response.status = "PdfExtractionStrategy" <=> EndsInDotPdf(response.message))

\* C22: for a non-empty list of uploaded files the ranking of uploadCVS has
\* exactly one entry per file, is in non-increasing order of score with equal
\* scores in upload order, and the best match is the head of the ranking; the
\* request stores nothing.
C22_RankingSortedAndStable ==
    [][ \A s \in Sessions, uploads \in RankedUploads :
          (LoggedIn(s) /\ uploadCVS_ranking(s, uploads)) =>
             LET ranking == response'.ranking
             IN /\ Len(ranking) = Len(uploads)
                /\ { ranking[i].filename : i \in DOMAIN ranking } = DOMAIN uploads
                /\ \A i \in DOMAIN ranking : ranking[i].score = uploads[ranking[i].filename]
                /\ \A i, j \in DOMAIN ranking :
                      i < j => \/ ranking[i].score > ranking[j].score
                               \/ /\ ranking[i].score = ranking[j].score
                                  /\ ranking[i].filename < ranking[j].filename
                /\ response'.best_cv = ranking[1]
                /\ UNCHANGED dbVars ]_vars

\* Files with the scores 0.9, 0.3 and 0.6 were ranked 0.9, 0.6, 0.3.
C22_RankedThreeFiles ==
    /\ "ranking" \in DOMAIN response
    /\ [i \in DOMAIN response.ranking |-> response.ranking[i].filename] = <<1, 3, 2>>
    /\ [i \in DOMAIN response.ranking |-> response.ranking[i].score] = <<9, 6, 3>>
    /\ response.best_cv = [filename |-> 1, score |-> 9]

\* C28: no exposed operation deletes an Applied_resume: under every
\* interleaving of requests, a delete_cv of a resume beside an apply_vacancy
\* with that resume included, every Applied_resume once created exists in
\* every later state and references a Resume that exists.
C28_ApplicationsNeverDeleted ==
    [][ \A a \in applied :
           \E b \in applied' : b.id = a.id /\ \E r \in resumes' : r.id = b.resume ]_vars

(* ------------------------------ embeddings ----------------------------- *)
\* The embedding blobs stored on the rows of Resume and Vacancy.
StoredBlobs ==
    { r.embedding : r \in resumes } \cup { vacancies[v].embedding : v \in VacancyIds }

\* C26: every embedding blob stored on a Resume or a Vacancy, written by
\* uploadCV, upload_vacancies, the backfill of apply_vacancy or the default of
\* the field, is 6144 bytes long and decodes as 32-bit floats to 1536 elements.
C26_BlobIs1536Float32 ==
    \A blob \in StoredBlobs : nbytes(blob) = 6144 /\ frombuffer_size(blob) = 1536

\* C27: a Vacancy whose embedding is still the random default of its creation
\* has it overwritten, the first time apply_vacancy needs it, with the
\* embedding of description + " " + requirements, and the new value is saved:
\* afterwards the stored embedding is no longer the default.
C27_DefaultEmbeddingOverwritten ==
    [][ \A s \in Sessions, v \in VacancyIds, r \in ResumeIds :
          (/\ LoggedIn(s)
           /\ vacancies[v].embedding = default_embedding
           /\ ResumeById(r).uploaded_by = session[s].user_id
           /\ apply_vacancy(s, v, "POST", r))
          => /\ vacancies'[v].embedding =
                   embed(vacancies[v].description \o <<" ">> \o vacancies[v].requirements)
             /\ vacancies'[v].embedding # default_embedding ]_vars

\* C30: the mock embedding depends on the text and the dimension alone: a
\* call of MockEmbeddingService.embed made now, for the text of a row whose
\* embedding the mock computed when the row was stored, returns the stored
\* vector bit for bit.
C30_MockEmbeddingReproducible ==
    \A r \in resumes :
       r.embedding \in { MockEmbeddingService_embed(r.extracted_text, EmbeddingDimension, seed) :
                            seed \in HashSeeds }
       => r.embedding = MockEmbeddingService_embed(r.extracted_text, EmbeddingDimension, hashseed)

(* ------------------------------ bookmarks ------------------------------ *)
\* C23: with requests running one at a time, after any sequence of
\* save_vacancy and unsave_vacancy calls there is at most one Saved_vacancy
\* per (user, vacancy): saving an already bookmarked pair adds no second row.
C23_OneBookmarkPerPair ==
    \A x, y \in saved : (x.user = y.user /\ x.vacancy = y.vacancy) => x = y

\* A user who holds a bookmark of the vacancy was told so on saving it again,
\* after an earlier bookmark had been removed.
C23_SecondSaveTurnedDown ==
    /\ response.message = "Ya has guardado esta vacante"
    /\ \E x \in saved : x.id > 1

\* C24: unsave_vacancy deletes only the Saved_vacancy whose key is the given
\* id and whose user is the session's user; when there is none (unknown id,
\* or a bookmark of another user) it deletes nothing; it deletes no Vacancy
\* and no bookmark of another user.
C24_UnsaveOnlyOwnBookmark ==
    [][ Answered("redirect_history") =>
        \A s \in Sessions, id \in SavedKeys :
           (LoggedIn(s) /\ unsave_vacancy(s, id)) =>
              /\ saved' = saved \ { x \in saved : x.id = id /\ x.user = session[s].user_id }
              /\ vacancies' = vacancies
              /\ \A x \in saved : x.user # session[s].user_id => x \in saved' ]_vars

\* A user was told there is no such bookmark while the bookmarks on record
\* belong to another user.
C24_ForeignBookmarkKept ==
    /\ response.message = "No has guardado esta vacante"
    /\ saved # {}
    /\ \E s \in Sessions : LoggedIn(s) /\ \A x \in saved : x.user # session[s].user_id

\* C29: redirect_to_cv_inprover modifies no record. It redirects to feed when
\* the vacancy does not resolve (unknown Saved_vacancy id for origin "saved",
\* unknown vacancy id for origin "published", any other origin) and when the
\* origin is "saved" and an Applied_resume links the vacancy to a resume of
\* the session's user; otherwise it redirects to the upload form with the id
\* of the resolved vacancy.
C29_RedirectCarriesResolvedVacancy ==
    [][ Answered("redirect_feed") \/ Answered("redirect_upload_cv") =>
        \A s \in Sessions, id \in SavedKeys \cup VacancyKeys, origin \in Origins :
           (LoggedIn(s) /\ redirect_to_cv_inprover(s, id, origin)) =>
              LET resolved ==
                      CASE origin = "saved" -> { x.vacancy : x \in { y \in saved : y.id = id } }
                        [] origin = "published" -> {id} \cap VacancyIds
                        [] OTHER -> {}
                  applied_by_user(v) ==
                      \E a \in applied, r \in resumes :
                         /\ a.vacancy = v /\ a.resume = r.id
                         /\ r.uploaded_by = session[s].user_id
              IN /\ UNCHANGED dbVars
                 /\ IF resolved = {}
                    THEN response'.status = "redirect_feed"
                    ELSE IF origin = "saved" /\ \E v \in resolved : applied_by_user(v)
                    THEN response'.status = "redirect_feed"
                    ELSE /\ response'.status = "redirect_upload_cv"
                         /\ "vacancy_id" \in DOMAIN response'
                         /\ response'.vacancy_id \in resolved ]_vars

\* A user went to the upload form from a bookmark whose key is not the key of
\* its vacancy, while another user has applied to that vacancy.
C29_FromBookmarkToUpload ==
    /\ response.status = "redirect_upload_cv"
    /\ "vacancy_id" \in DOMAIN response
    /\ \E x \in saved : x.id # x.vacancy /\ x.vacancy = response.vacancy_id
    /\ applied # {}

\* C25: in every state reached through the handlers, the owner of every
\* Vacancy has the role "recruiter".
C25_VacancyOwnerIsRecruiter ==
    \A v \in VacancyIds : users[vacancies[v].uploaded_by].role = "recruiter"

\* The notifications about a decision on application a: those to the uploader
\* of its CV that name the title of its vacancy.
NotificationsAbout(a) ==
    { n \in NotificationIds :
        /\ notifications[n].user = ResumeById(a.resume).uploaded_by
        /\ notifications[n].message[2] = vacancies[a.vacancy].title }
\* The applications of the same user to the same vacancy as a.
SameCase(a) ==
    { b \in applied : /\ ResumeById(b.resume).uploaded_by = ResumeById(a.resume).uploaded_by
                      /\ b.vacancy = a.vacancy }

\* C31: under every interleaving of accept_resume and reject_resume requests on
\* the same Applied_resume (check, write and notify as separate steps), at most
\* one Notification is ever created for that application, and once no request
\* is in flight the application's state is the decision its notification names.
C31_OneNotificationPerDecision ==
    \A a \in applied :
        /\ Cardinality(NotificationsAbout(a)) <= Cardinality(SameCase(a))
        /\ inflight = {} =>
              \A n \in NotificationsAbout(a) :
                  \E b \in SameCase(a) : notifications[n].message[1] = decision_word(b.state)

\* The gap a line's marker puts above it: 20 points for a heading, 15 for a
\* sub-heading.
GapAbove(kind) == IF kind = "# " THEN 20 ELSE IF kind = "## " THEN 15 ELSE 0

\* C34: in _generate_pdf_response every wrapped sub-line is drawn with the
\* cursor strictly above the bottom margin and not above the top margin
\* (1 inch < y <= page height - 1 inch on a US-letter page), the cursor drops
\* by 14 points after each drawn sub-line, and a new page is started exactly
\* when the cursor is at or below the bottom margin before a draw, also after
\* the 20-point and 15-point gaps of headings and sub-headings.
C34_DrawnBetweenTheMargins ==
    [][ /\ canvas'.op = "drawString" =>
              /\ 72 < canvas'.at /\ canvas'.at <= 792 - 72
              /\ canvas'.y = canvas'.at - 14
              /\ canvas'.at = (IF canvas.y <= 72 THEN 792 - 72 ELSE canvas.y)
              /\ canvas'.showPage <=> canvas.y <= 72
        /\ canvas'.op = "line" =>
              /\ canvas'.showPage <=> canvas.y - GapAbove(canvas'.line) <= 72
              /\ canvas'.y = (IF canvas'.showPage THEN 792 - 72
                              ELSE canvas.y - GapAbove(canvas'.line)) ]_vars

\* The second sub-line of a wrapped heading was drawn at the top of a page
\* that its own check started, and the cursor has dropped below it.
C34_HeadingWrappedOntoNewPage ==
    /\ canvas.op = "drawString"
    /\ canvas.line = "# "
    /\ canvas.showPage
    /\ canvas.at = 792 - 72
    /\ canvas.y = 792 - 72 - 14

\* C32: an Applied_resume is only ever created for a vacancy whose state is
\* "open" at the moment of creation; an apply_vacancy POST against a vacancy
\* in state "closed" creates no record.
C32_AppliesOnlyToOpenVacancy ==
    [][ nextAppliedId' # nextAppliedId =>
        \A a \in applied' :
            a.id = nextAppliedId => vacancies[a.vacancy].state = "open" ]_vars

\* C33: every state value stored on an Applied_resume (at creation, on accept,
\* on reject) is one of the choices declared for the state field.
C33_StoredStateIsAChoice ==
    \A a \in applied : a.state \in Applied_resume_state_choices

\* C10: mark_notification_read by a user who does not own the notification
\* leaves its read flag as it is; by the owner it sets read to true, and on a
\* notification that is already read it changes nothing. No other notification
\* changes in either case.
C10_OnlyOwnerMarksRead ==
    [][ Answered("redirect_notification_list") =>
        \A n \in NotificationIds, s \in Sessions :
            (LoggedIn(s) /\ mark_notification_read(s, n)) =>
                /\ DOMAIN notifications' = DOMAIN notifications
                /\ \A m \in NotificationIds \ {n} : notifications'[m] = notifications[m]
                /\ notifications'[n] =
                       IF notifications[n].user = session[s].user_id
                       THEN [notifications[n] EXCEPT !.read = TRUE]
                       ELSE notifications[n]
                /\ (notifications[n].user = session[s].user_id /\ notifications[n].read)
                       => UNCHANGED dbVars ]_vars

\* A user who owns neither notification was turned down; of the two
\* notifications, the owner has marked one as read and the other is unread.
C10_StrangerTurnedDown ==
    /\ response.message = "No tienes permiso para modificar esta notificacion."
    /\ Len(notifications) = 2
    /\ \E n, m \in NotificationIds : notifications[n].read /\ ~notifications[m].read
====
